---- MODULE Spec2Model ----
(***************************************************************************)
(* Model of the catalog-and-favorites backend (users, movies, favorites).  *)
(*                                                                         *)
(* The Entity Store is the three tables of app/models.py, each a set of    *)
(* rows.  Every request handler of app/routers is one atomic action in     *)
(* Spec (one request at a time); SpecRace splits the two create-favorite   *)
(* handlers at the point between their existence check and their insert,   *)
(* so that two requests interleave.  SpecPag exercises the pagination      *)
(* calculator of app/schemas.py as a pure function of its arguments.       *)
(***************************************************************************)
EXTENDS Integers, Sequences, FiniteSets, TLC

VARIABLES
    usuarios,   \* table usuario: set of rows [id, nombre, correo]
    peliculas,  \* table pelicula: set of rows [id, titulo, anio], and in a catalog
                \* also genero, director, duracion, clasificacion
    favoritos,  \* table favorito: set of rows [id, id_usuario, id_pelicula]
    resp,       \* the request last served and its outcome
    pag,        \* SpecPag: arguments given to PaginatedResponse and its result
    pc,         \* SpecRace: where each in-flight create-favorite request stands
    loc         \* SpecRace: the arguments of each in-flight request

vars == <<usuarios, peliculas, favoritos, resp, pag, pc, loc>>

(***************************************************************************)
(* Bounds of the model.                                                    *)
(***************************************************************************)
MaxId == 2          \* largest id the store hands out to a user or a movie
MaxFavId == 2       \* largest id the store hands out to a favorite
MaxTotal == 6       \* SpecPag: largest total_records given to the calculator
MaxPage == 4        \* SpecPag: largest current_pg given to the calculator

(***************************************************************************)
(* Optional values: None is the empty sequence, Some(x) the singleton.     *)
(***************************************************************************)
None == <<>>
Some(x) == <<x>>

(***************************************************************************)
(* Pagination calculator (PaginatedResponse).                              *)
(***************************************************************************)
LimitMax == 100

\* Field constraints of PaginatedResponse: total_records ge=0, current_pg
\* ge=1, limit ge=1 le=100, pages ge=1.
FieldsValid(self) ==
    /\ self.total_records >= 0
    /\ self.current_pg >= 1
    /\ self.limit >= 1
    /\ self.limit <= LimitMax
    /\ self.pages >= 1

\* Mutant: the page count rounds down instead of up.
calculate_pages_floor(total_records, limit) ==
    IF total_records = 0 THEN 1 ELSE total_records \div limit

calculate_pages(total_records, limit) ==
    IF total_records = 0
    THEN 1
    ELSE (total_records + limit - 1) \div limit

\* Mutant: the navigation fields the caller passed in are kept when the
\* corresponding flag is false instead of being reset to None.
navigation_keep_supplied(self, pages) ==
    LET has_prev == self.current_pg > 1
        has_next == self.current_pg < pages
    IN [self EXCEPT
          !.pages = pages,
          !.has_prev = Some(has_prev),
          !.has_next = Some(has_next),
          !.prev_page = IF has_prev THEN Some(self.current_pg - 1) ELSE @,
          !.next_page = IF has_next THEN Some(self.current_pg + 1) ELSE @]

navigation(self, pages) ==
    LET has_prev == self.current_pg > 1
        has_next == self.current_pg < pages
    IN [self EXCEPT
          !.pages = pages,
          !.has_prev = Some(has_prev),
          !.has_next = Some(has_next),
          !.prev_page = IF has_prev THEN Some(self.current_pg - 1) ELSE None,
          !.next_page = IF has_next THEN Some(self.current_pg + 1) ELSE None]

\* The model validator: the result is [error |-> "Ok", value |-> the model]
\* or [error |-> "OutOfRange"] when the ValueError of line 450 is raised.
calculate_pagination_info(self) ==
    LET pages == calculate_pages(self.total_records, self.limit)
    IN IF self.current_pg > pages
       THEN [error |-> "OutOfRange"]
       ELSE [error |-> "Ok", value |-> navigation(self, pages)]

\* Construction cls(...): the field constraints are checked first, and the
\* model validator runs only when all of them hold.
PaginatedResponse(self) ==
    IF ~FieldsValid(self)
    THEN [error |-> "FieldInvalid"]
    ELSE calculate_pagination_info(self)

(***************************************************************************)
(* Entity Store.                                                           *)
(***************************************************************************)
Ids(T) == {r.id : r \in T}

MaxOf(S) == CHOOSE x \in S : \A y \in S : y <= x

\* An integer primary key left unset on insert: the store hands out the
\* largest id in the table plus one (ids of deleted rows come back).
NextId(T) == IF T = {} THEN 1 ELSE MaxOf(Ids(T)) + 1

\* A text is a sequence of characters; str.lower() maps each of them.
LowerChar(c) ==
    CASE c = "A" -> "a"
      [] c = "B" -> "b"
      [] c = "X" -> "x"
      [] OTHER -> c

Lower(s) == [i \in DOMAIN s |-> LowerChar(s[i])]

\* Rows of a table in ascending id order (ORDER BY id).
RECURSIVE OrderById(_)
OrderById(T) ==
    IF T = {}
    THEN <<>>
    ELSE LET r == CHOOSE r \in T : \A q \in T : r.id <= q.id
         IN <<r>> \o OrderById(T \ {r})

\* OFFSET/LIMIT of the store: a negative OFFSET counts as zero and a
\* negative LIMIT as no limit.
OffsetLimit(rows, offset, limit) ==
    LET off == IF offset < 0 THEN 0 ELSE offset
        upto == IF limit < 0 \/ off + limit > Len(rows)
                THEN Len(rows)
                ELSE off + limit
    IN IF off >= upto THEN <<>> ELSE SubSeq(rows, off + 1, upto)

(***************************************************************************)
(* Request inputs.                                                         *)
(***************************************************************************)
Nombres == {"Ana"}

CorreoInputs ==
    { <<"a", "@", "x">>, <<"A", "@", "X">>, <<"b", "@", "x">> }

Titulos == {"X", "Y"}

Anios == {2019, 2020}

IdInputs == 1..(MaxId + 1)

\* A field of a partial update is None (unset) or Some(value).
Optional(S) == {None} \cup {<<x>> : x \in S}

(***************************************************************************)
(* SpecPag: the calculator applied to arguments drawn from bounded sets.   *)
(***************************************************************************)
\* What a caller may pass for the fields the calculator overwrites.
SuppliedNav ==
    { [pages |-> 1, has_next |-> None, has_prev |-> None,
       next_page |-> None, prev_page |-> None],
      [pages |-> 7, has_next |-> Some(TRUE), has_prev |-> Some(TRUE),
       next_page |-> Some(9), prev_page |-> Some(9)],
      [pages |-> 3, has_next |-> Some(FALSE), has_prev |-> Some(FALSE),
       next_page |-> None, prev_page |-> Some(2)] }

PagArgs ==
    { [items |-> <<>>, total_records |-> t, current_pg |-> p, limit |-> l,
       pages |-> s.pages, has_next |-> s.has_next, has_prev |-> s.has_prev,
       next_page |-> s.next_page, prev_page |-> s.prev_page] :
         t \in 0..MaxTotal, p \in 0..MaxPage, l \in 0..(LimitMax + 1),
         s \in SuppliedNav }

NotCalled == [error |-> "NotCalled"]

StoreInit ==
    /\ usuarios = {}
    /\ peliculas = {}
    /\ favoritos = {}
    /\ resp = [op |-> "none", status |-> 0, error |-> "Ok", body |-> <<>>]

Procs == {1, 2}

RaceIdle ==
    /\ pc = [p \in Procs |-> "idle"]
    /\ loc = [p \in Procs |-> [op |-> "none", id_usuario |-> 0,
                              id_pelicula |-> 0, error |-> "none"]]

InitPag ==
    /\ StoreInit
    /\ RaceIdle
    /\ pag \in { [args |-> a, out |-> NotCalled] : a \in PagArgs }

Construct ==
    /\ pag.out = NotCalled
    /\ pag' = [pag EXCEPT !.out = PaginatedResponse(pag.args)]
    /\ UNCHANGED <<usuarios, peliculas, favoritos, resp, pc, loc>>

NextPag == Construct

SpecPag == InitPag /\ [][NextPag]_vars

(***************************************************************************)
(* Request handlers.  Each is one action: the whole handler, from the      *)
(* request to the response, on the store as the request finds it.          *)
(***************************************************************************)
store == <<usuarios, peliculas, favoritos>>

Reply(op, status, error, body) ==
    [op |-> op, status |-> status, error |-> error, body |-> body]

NoRace == UNCHANGED <<pag, pc, loc>>

----------------------------------------------------------------------------
\* Users.

\* Mutant: the validator returns the address as typed.
validate_email_as_typed(correo) == correo

\* UsuarioCreate.validate_email / UsuarioUpdate.validate_email.
validate_email(correo) == Lower(correo)

UsuarioCreate(nombre, correo) ==
    [nombre |-> nombre, correo |-> validate_email(correo)]

\* POST /api/usuarios/
crear_usuario(nombre, correo) ==
    LET usuario == UsuarioCreate(nombre, correo)
        existing_user == {u \in usuarios : u.correo = Lower(usuario.correo)}
    IN /\ IF existing_user # {}
          THEN /\ resp' = Reply("crear_usuario", 400, "Conflict", None)
               /\ UNCHANGED usuarios
          ELSE /\ NextId(usuarios) <= MaxId
               /\ LET db_usuario == [id |-> NextId(usuarios),
                                     nombre |-> usuario.nombre,
                                     correo |-> usuario.correo]
                  IN /\ usuarios' = usuarios \cup {db_usuario}
                     /\ resp' = Reply("crear_usuario", 201, "Ok", Some(db_usuario))
       /\ UNCHANGED <<peliculas, favoritos>>
       /\ NoRace

\* A partial update: each field is None (unset) or Some(value).
UsuarioUpdate(nombre, correo) ==
    [nombre |-> nombre,
     correo |-> IF correo = None THEN None ELSE Some(validate_email(correo[1]))]

\* The check of actualizar_usuario: another user holds the address.
correo_en_uso(usuario_id, correo) ==
    \E u \in usuarios : u.correo = Lower(correo) /\ u.id # usuario_id

\* PUT /api/usuarios/{usuario_id}
actualizar_usuario(usuario_id, nombre, correo) ==
    LET usuario_update == UsuarioUpdate(nombre, correo)
    IN /\ IF ~(\E u \in usuarios : u.id = usuario_id)
          THEN /\ resp' = Reply("actualizar_usuario", 404, "NotFound", None)
               /\ UNCHANGED usuarios
          ELSE IF /\ usuario_update.correo # None
                  /\ correo_en_uso(usuario_id, usuario_update.correo[1])
          THEN /\ resp' = Reply("actualizar_usuario", 400, "Conflict", None)
               /\ UNCHANGED usuarios
          ELSE LET db_usuario == CHOOSE u \in usuarios : u.id = usuario_id
                   updated ==
                       [db_usuario EXCEPT
                          !.nombre = IF usuario_update.nombre = None
                                     THEN @ ELSE usuario_update.nombre[1],
                          !.correo = IF usuario_update.correo = None
                                     THEN @ ELSE usuario_update.correo[1]]
               IN \* session.commit() stores the row; the session.refresh()
                  \* that follows is called without its argument and raises.
                  /\ usuarios' = (usuarios \ {db_usuario}) \cup {updated}
                  /\ resp' = Reply("actualizar_usuario", 500, "Internal", None)
       /\ UNCHANGED <<peliculas, favoritos>>
       /\ NoRace

\* DELETE /api/usuarios/{usuario_id}.  The rows of favorito that refer to
\* the deleted row are kept, with the reference set to NULL.
eliminar_usuario(usuario_id) ==
    /\ IF ~(\E u \in usuarios : u.id = usuario_id)
       THEN /\ resp' = Reply("eliminar_usuario", 404, "NotFound", None)
            /\ UNCHANGED <<usuarios, favoritos>>
       ELSE /\ usuarios' = {u \in usuarios : u.id # usuario_id}
            /\ favoritos' =
                 { IF f.id_usuario = Some(usuario_id)
                   THEN [f EXCEPT !.id_usuario = None]
                   ELSE f : f \in favoritos }
            /\ resp' = Reply("eliminar_usuario", 204, "Ok", None)
    /\ UNCHANGED peliculas
    /\ NoRace

----------------------------------------------------------------------------
\* Movies.

\* POST /api/peliculas/
crear_pelicula(titulo, anio) ==
    LET existing_pelicula ==
            {p \in peliculas : p.titulo = titulo /\ p.anio = anio}
    IN /\ IF existing_pelicula # {}
          THEN /\ resp' = Reply("crear_pelicula", 400, "Conflict", None)
               /\ UNCHANGED peliculas
          ELSE /\ NextId(peliculas) <= MaxId
               /\ LET db_pelicula == [id |-> NextId(peliculas),
                                      titulo |-> titulo, anio |-> anio]
                  IN /\ peliculas' = peliculas \cup {db_pelicula}
                     /\ resp' = Reply("crear_pelicula", 201, "Ok", Some(db_pelicula))
       /\ UNCHANGED <<usuarios, favoritos>>
       /\ NoRace

\* PUT /api/peliculas/{pelicula_id}: the fields that are set are written
\* to the row, with no look at the other rows.
actualizar_pelicula(pelicula_id, titulo, anio) ==
    /\ IF ~(\E p \in peliculas : p.id = pelicula_id)
       THEN /\ resp' = Reply("actualizar_pelicula", 404, "NotFound", None)
            /\ UNCHANGED peliculas
       ELSE LET db_pelicula == CHOOSE p \in peliculas : p.id = pelicula_id
                updated ==
                    [db_pelicula EXCEPT
                       !.titulo = IF titulo = None THEN @ ELSE titulo[1],
                       !.anio = IF anio = None THEN @ ELSE anio[1]]
            IN /\ peliculas' = (peliculas \ {db_pelicula}) \cup {updated}
               /\ resp' = Reply("actualizar_pelicula", 200, "Ok", Some(updated))
    /\ UNCHANGED <<usuarios, favoritos>>
    /\ NoRace

\* DELETE /api/peliculas/{pelicula_id}
eliminar_pelicula(pelicula_id) ==
    /\ IF ~(\E p \in peliculas : p.id = pelicula_id)
       THEN /\ resp' = Reply("eliminar_pelicula", 404, "NotFound", None)
            /\ UNCHANGED <<peliculas, favoritos>>
       ELSE /\ peliculas' = {p \in peliculas : p.id # pelicula_id}
            /\ favoritos' =
                 { IF f.id_pelicula = Some(pelicula_id)
                   THEN [f EXCEPT !.id_pelicula = None]
                   ELSE f : f \in favoritos }
            /\ resp' = Reply("eliminar_pelicula", 204, "Ok", None)
    /\ UNCHANGED usuarios
    /\ NoRace

----------------------------------------------------------------------------
\* Favorites.

\* The checks that crear_favorito and marcar_favorito make before they
\* insert: the user exists, the movie exists, the pair is not yet marked.
favorito_check(usuario_id, pelicula_id) ==
    IF ~(\E u \in usuarios : u.id = usuario_id)
    THEN "NotFound"
    ELSE IF ~(\E p \in peliculas : p.id = pelicula_id)
    THEN "NotFound"
    ELSE IF \E f \in favoritos : /\ f.id_usuario = Some(usuario_id)
                                 /\ f.id_pelicula = Some(pelicula_id)
    THEN "Conflict"
    ELSE "Ok"

\* The row that session.add + session.commit store.  The table is created
\* with no constraint besides its primary key: the UniqueConstraint of the
\* model sits in an inner class Config that the table definition does not
\* read, so the store accepts any row.
db_favorito(usuario_id, pelicula_id) ==
    [id |-> NextId(favoritos),
     id_usuario |-> Some(usuario_id),
     id_pelicula |-> Some(pelicula_id)]

\* What a create-favorite handler answers when a check fails.
FavoritoRefused(op, outcome) ==
    IF outcome = "NotFound"
    THEN Reply(op, 404, "NotFound", None)
    ELSE Reply(op, 400, "Conflict", None)

\* Mutant: the insert is not preceded by the look-up of the pair.
MarkFavoriteUnchecked(op, usuario_id, pelicula_id) ==
    /\ IF \/ ~(\E u \in usuarios : u.id = usuario_id)
          \/ ~(\E p \in peliculas : p.id = pelicula_id)
       THEN /\ resp' = FavoritoRefused(op, "NotFound")
            /\ UNCHANGED favoritos
       ELSE /\ NextId(favoritos) <= MaxFavId
            /\ favoritos' = favoritos \cup {db_favorito(usuario_id, pelicula_id)}
            /\ resp' = Reply(op, 201, "Ok", Some(db_favorito(usuario_id, pelicula_id)))
    /\ UNCHANGED <<usuarios, peliculas>>
    /\ NoRace

\* The body that crear_favorito and marcar_favorito share.
MarkFavorite(op, usuario_id, pelicula_id) ==
    LET outcome == favorito_check(usuario_id, pelicula_id)
    IN /\ IF outcome # "Ok"
          THEN /\ resp' = FavoritoRefused(op, outcome)
               /\ UNCHANGED favoritos
          ELSE /\ NextId(favoritos) <= MaxFavId
               /\ favoritos' = favoritos \cup {db_favorito(usuario_id, pelicula_id)}
               /\ resp' = Reply(op, 201, "Ok",
                                Some(db_favorito(usuario_id, pelicula_id)))
       /\ UNCHANGED <<usuarios, peliculas>>
       /\ NoRace

\* POST /api/favoritos/
crear_favorito(usuario_id, pelicula_id) ==
    MarkFavorite("crear_favorito", usuario_id, pelicula_id)

\* POST /api/usuarios/{usuario_id}/favoritos/{pelicula_id}
marcar_favorito(usuario_id, pelicula_id) ==
    MarkFavorite("marcar_favorito", usuario_id, pelicula_id)

FavIdInputs == 1..(MaxFavId + 1)

\* DELETE /api/favoritos/{favorito_id}
eliminar_favorito(favorito_id) ==
    /\ IF ~(\E f \in favoritos : f.id = favorito_id)
       THEN /\ resp' = Reply("eliminar_favorito", 404, "NotFound", None)
            /\ UNCHANGED favoritos
       ELSE /\ favoritos' = {f \in favoritos : f.id # favorito_id}
            /\ resp' = Reply("eliminar_favorito", 204, "Ok", None)
    /\ UNCHANGED <<usuarios, peliculas>>
    /\ NoRace

\* DELETE /api/usuarios/{usuario_id}/favoritos/{pelicula_id}: .first() of an
\* unordered query deletes any one of the matching rows.
eliminar_favorito_usuario(usuario_id, pelicula_id) ==
    LET found == {f \in favoritos : /\ f.id_pelicula = Some(pelicula_id)
                                    /\ f.id_usuario = Some(usuario_id)}
    IN /\ IF found = {}
          THEN /\ resp' = Reply("eliminar_favorito_usuario", 404, "NotFound", None)
               /\ UNCHANGED favoritos
          ELSE \E favorito \in found :
               /\ favoritos' = favoritos \ {favorito}
               /\ resp' = Reply("eliminar_favorito_usuario", 204, "Ok", None)
       /\ UNCHANGED <<usuarios, peliculas>>
       /\ NoRace

\* DELETE /api/favoritos/usuario/{usuario_id}/todos
eliminar_todos_favoritos_usuario(usuario_id) ==
    /\ IF ~(\E u \in usuarios : u.id = usuario_id)
       THEN /\ resp' = Reply("eliminar_todos_favoritos_usuario", 404, "NotFound", None)
            /\ UNCHANGED favoritos
       ELSE /\ favoritos' = {f \in favoritos : f.id_usuario # Some(usuario_id)}
            /\ resp' = Reply("eliminar_todos_favoritos_usuario", 204, "Ok", None)
    /\ UNCHANGED <<usuarios, peliculas>>
    /\ NoRace

(***************************************************************************)
(* Spec: the handlers that change the store, one request at a time, from   *)
(* an empty store.                                                         *)
(***************************************************************************)
PagIdle ==
    pag = [args |-> [items |-> <<>>, total_records |-> 0, current_pg |-> 1,
                     limit |-> 1, pages |-> 1, has_next |-> None,
                     has_prev |-> None, next_page |-> None, prev_page |-> None],
           out |-> NotCalled]

Init == StoreInit /\ RaceIdle /\ PagIdle

Next ==
    \/ \E nombre \in Nombres, correo \in CorreoInputs :
          crear_usuario(nombre, correo)
    \/ \E usuario_id \in IdInputs, nombre \in Optional(Nombres),
          correo \in Optional(CorreoInputs) :
          actualizar_usuario(usuario_id, nombre, correo)
    \/ \E usuario_id \in IdInputs : eliminar_usuario(usuario_id)
    \/ \E titulo \in Titulos, anio \in Anios : crear_pelicula(titulo, anio)
    \/ \E pelicula_id \in IdInputs, titulo \in Optional(Titulos),
          anio \in Optional(Anios) :
          actualizar_pelicula(pelicula_id, titulo, anio)
    \/ \E pelicula_id \in IdInputs : eliminar_pelicula(pelicula_id)
    \/ \E usuario_id \in IdInputs, pelicula_id \in IdInputs :
          crear_favorito(usuario_id, pelicula_id)
    \/ \E usuario_id \in IdInputs, pelicula_id \in IdInputs :
          marcar_favorito(usuario_id, pelicula_id)
    \/ \E favorito_id \in FavIdInputs : eliminar_favorito(favorito_id)
    \/ \E usuario_id \in IdInputs, pelicula_id \in IdInputs :
          eliminar_favorito_usuario(usuario_id, pelicula_id)
    \/ \E usuario_id \in IdInputs : eliminar_todos_favoritos_usuario(usuario_id)

Spec == Init /\ [][Next]_vars

(***************************************************************************)
(* Paginated listings.                                                     *)
(***************************************************************************)
\* A query parameter is None when the request leaves it out.
PageInputs == Optional(0..(MaxId + 1))

LimitInputs == Optional({0, 1, 2, LimitMax, LimitMax + 1})

\* offset = (page - 1) * limit
offset_of(page, limit) == (page - 1) * limit

\* PaginatedResponse.from_query: the total is counted over the whole table
\* and the remaining fields are passed as pages=1, has_next=None,
\* has_prev=None.
from_query(items, entity_class, current_pg, limit) ==
    PaginatedResponse(
        [items |-> items,
         total_records |-> Cardinality(entity_class),
         current_pg |-> current_pg,
         limit |-> limit,
         pages |-> 1,
         has_next |-> None,
         has_prev |-> None,
         next_page |-> None,
         prev_page |-> None])

\* Response schemas built from a row.  UsuarioRead and PeliculaRead take any
\* row of their table; FavoritoRead declares id_usuario and id_pelicula as
\* int and rejects a row where one of them is NULL.
UsuarioRead(row) == TRUE
PeliculaRead(row) == TRUE
FavoritoRead(row) == row.id_usuario # None /\ row.id_pelicula # None

\* The body shared by the three listing handlers, from the offset on;
\* rejected holds the rows the response schema of the listing rejects.  An
\* error raised while the response is built is answered 500.
Listing(op, entity_class, rejected, page, limit) ==
    LET offset == offset_of(page, limit)
        rows == OffsetLimit(OrderById(entity_class), offset, limit)
        r == from_query(rows, entity_class, page, limit)
    IN resp' = IF \E i \in 1..Len(rows) : rows[i] \in rejected
               THEN Reply(op, 500, "Internal", None)
               ELSE IF r.error = "Ok"
               THEN Reply(op, 200, "Ok", Some(r.value))
               ELSE Reply(op, 500, r.error, None)

\* Query(1, ge=1) and Query(10, ge=1, le=100) of listar_usuarios and
\* listar_favoritos: a value outside the range is answered 422.
QueryValid(page, limit) == page >= 1 /\ limit >= 1 /\ limit <= 100

Default(param, default) == IF param = None THEN default ELSE param[1]

\* GET /api/usuarios/
listar_usuarios(page, limit) ==
    /\ IF ~QueryValid(Default(page, 1), Default(limit, 10))
       THEN resp' = Reply("listar_usuarios", 422, "Validation", None)
       ELSE Listing("listar_usuarios", usuarios,
                    {row \in usuarios : ~UsuarioRead(row)},
                    Default(page, 1), Default(limit, 10))
    /\ UNCHANGED store
    /\ NoRace

\* GET /api/favoritos/
listar_favoritos(page, limit) ==
    /\ IF ~QueryValid(Default(page, 1), Default(limit, 10))
       THEN resp' = Reply("listar_favoritos", 422, "Validation", None)
       ELSE Listing("listar_favoritos", favoritos,
                    {row \in favoritos : ~FavoritoRead(row)},
                    Default(page, 1), Default(limit, 10))
    /\ UNCHANGED store
    /\ NoRace

\* GET /api/peliculas/: page: int = 0 and limit: int = 100, with no range
\* on either.
listar_peliculas(page, limit) ==
    /\ Listing("listar_peliculas", peliculas,
               {row \in peliculas : ~PeliculaRead(row)},
               Default(page, 0), Default(limit, 100))
    /\ UNCHANGED store
    /\ NoRace

(***************************************************************************)
(* SpecList: the listings, on the stores that creating rows and deleting   *)
(* users lead to.                                                          *)
(***************************************************************************)
NextList ==
    \/ \E nombre \in Nombres, correo \in CorreoInputs :
          crear_usuario(nombre, correo)
    \/ \E usuario_id \in IdInputs : eliminar_usuario(usuario_id)
    \/ \E titulo \in Titulos, anio \in Anios : crear_pelicula(titulo, anio)
    \/ \E usuario_id \in IdInputs, pelicula_id \in IdInputs :
          crear_favorito(usuario_id, pelicula_id)
    \/ \E page \in PageInputs, limit \in LimitInputs : listar_usuarios(page, limit)
    \/ \E page \in PageInputs, limit \in LimitInputs : listar_peliculas(page, limit)
    \/ \E page \in PageInputs, limit \in LimitInputs : listar_favoritos(page, limit)

SpecList == Init /\ [][NextList]_vars

(***************************************************************************)
(* Properties of the pagination calculator (SpecPag).                      *)
(***************************************************************************)
\* n is the ceiling of t / l.
IsCeil(n, t, l) == n * l >= t /\ (n - 1) * l < t

\* The page count the contract asks for, from the total and the limit alone.
CeilPages(t, l) == IF t = 0 THEN 1 ELSE CHOOSE n \in 1..t : IsCeil(n, t, l)

\* C1: for every total_records >= 0 and limit in 1..100 the calculator
\* yields pages = 1 when total_records = 0 and pages = ceil(total_records /
\* limit) otherwise, whatever the caller passed for pages; page 1 of such
\* arguments is always accepted, so the count is always yielded for it.
C1_PageCount ==
    LET a == pag.args
    IN /\ pag.out.error = "Ok" =>
            IF a.total_records = 0
            THEN pag.out.value.pages = 1
            ELSE IsCeil(pag.out.value.pages, a.total_records, a.limit)
       /\ (pag.out # NotCalled /\ a.limit \in 1..LimitMax /\ a.current_pg = 1)
            => pag.out.error = "Ok"

\* C1 witness: 5 records at 2 per page give 3 pages although the caller
\* passed pages = 7.
C1_Witness ==
    /\ pag.out.error = "Ok"
    /\ pag.args.total_records = 5
    /\ pag.args.limit = 2
    /\ pag.args.pages = 7
    /\ pag.out.value.pages = 3

\* C3: for every accepted (total_records, current_page, limit), has_prev =
\* (current_page > 1), has_next = (current_page < pages), prev_page =
\* current_page - 1 exactly when has_prev and absent otherwise, next_page =
\* current_page + 1 exactly when has_next and absent otherwise; the right
\* hand sides read the three inputs only, so what the caller passed for
\* these fields has no effect.
C3_Navigation ==
    LET a == pag.args
        pages == CeilPages(a.total_records, a.limit)
    IN pag.out.error = "Ok" =>
         /\ pag.out.value.has_prev = Some(a.current_pg > 1)
         /\ pag.out.value.has_next = Some(a.current_pg < pages)
         /\ pag.out.value.prev_page =
               IF a.current_pg > 1 THEN Some(a.current_pg - 1) ELSE None
         /\ pag.out.value.next_page =
               IF a.current_pg < pages THEN Some(a.current_pg + 1) ELSE None
         /\ pag.out.value.total_records = a.total_records
         /\ pag.out.value.current_pg = a.current_pg
         /\ pag.out.value.limit = a.limit

\* C3 witness: page 1 of several, accepted, where the caller passed
\* has_next = False and prev_page = 2.
C3_Witness ==
    /\ pag.out.error = "Ok"
    /\ pag.args.current_pg = 1
    /\ pag.args.has_next = Some(FALSE)
    /\ pag.args.prev_page = Some(2)
    /\ pag.out.value.has_next = Some(TRUE)
    /\ pag.out.value.prev_page = None

(***************************************************************************)
(* Properties of the store under one request at a time (Spec).             *)
(***************************************************************************)
\* C6: a create request that would duplicate an existing unique key (a
\* user whose email equals an existing user's email ignoring case, a movie
\* with the (title, year) of an existing movie, a favorite for a (user,
\* movie) pair that already has one, through either endpoint) is answered
\* Conflict and leaves the store unchanged.
C6_DuplicateCreateConflicts ==
    [][ /\ resp'.op = "crear_usuario" =>
             \A nombre \in Nombres, correo \in CorreoInputs :
               ( /\ \E u \in usuarios : Lower(u.correo) = Lower(correo)
                 /\ crear_usuario(nombre, correo) )
               => (resp'.error = "Conflict" /\ UNCHANGED store)
        /\ resp'.op = "crear_pelicula" =>
             \A titulo \in Titulos, anio \in Anios :
               ( /\ \E p \in peliculas : p.titulo = titulo /\ p.anio = anio
                 /\ crear_pelicula(titulo, anio) )
               => (resp'.error = "Conflict" /\ UNCHANGED store)
        /\ resp'.op \in {"crear_favorito", "marcar_favorito"} =>
             \A usuario_id \in IdInputs, pelicula_id \in IdInputs :
               ( /\ \E f \in favoritos : /\ f.id_usuario = Some(usuario_id)
                                         /\ f.id_pelicula = Some(pelicula_id)
                 /\ \/ crear_favorito(usuario_id, pelicula_id)
                    \/ marcar_favorito(usuario_id, pelicula_id) )
               => (resp'.error = "Conflict" /\ UNCHANGED store)
      ]_vars

\* C6 witness: a create-user request was answered Conflict (400) while a
\* user is in the store.
C6_Witness ==
    /\ resp.op = "crear_usuario"
    /\ resp.error = "Conflict"
    /\ resp.status = 400
    /\ usuarios # {}

NoDupEmails ==
    \A u \in usuarios, v \in usuarios :
        u.id # v.id => Lower(u.correo) # Lower(v.correo)

\* C7: after any sequence of create-user and update-user operations no two
\* users in the store have emails that are equal ignoring case; an update
\* of a user's email to one held by a different user is answered Conflict
\* and changes nothing; re-submitting the user's own current email is
\* allowed: the request succeeds.
C7_EmailUniqueOwnAllowed ==
    [][ /\ NoDupEmails'
        /\ resp'.op = "actualizar_usuario" =>
             \A usuario_id \in IdInputs, nombre \in Optional(Nombres),
                correo \in CorreoInputs :
               ( /\ \E u \in usuarios : u.id = usuario_id
                 /\ actualizar_usuario(usuario_id, nombre, Some(correo)) )
               => /\ (\E v \in usuarios : /\ v.id # usuario_id
                                          /\ Lower(v.correo) = Lower(correo))
                       => (resp'.error = "Conflict" /\ UNCHANGED store)
                  /\ (\E u \in usuarios : /\ u.id = usuario_id
                                          /\ u.correo = correo)
                       => /\ resp'.error = "Ok"
                          /\ \E u \in usuarios' : /\ u.id = usuario_id
                                                  /\ u.correo = correo
      ]_vars

\* C8: after any sequence of create-movie and update-movie operations no
\* two movies in the store have the same (title, year).
C8_TituloAnioUnique ==
    \A p \in peliculas, q \in peliculas :
        p.id # q.id => ~(p.titulo = q.titulo /\ p.anio = q.anio)

\* C9: after any sequence of requests served one at a time the store holds
\* at most one favorite row per (user, movie) pair.
C9_FavoritoUnique ==
    \A f \in favoritos, g \in favoritos :
        (f.id # g.id /\ f.id_usuario # None /\ f.id_pelicula # None)
        => ~(f.id_usuario = g.id_usuario /\ f.id_pelicula = g.id_pelicula)

\* C9 witness: two favorites of two pairs are in the store and a request
\* to mark one of them again was answered Conflict.
C9_Witness ==
    /\ Cardinality(favoritos) = 2
    /\ \A f \in favoritos : f.id_usuario # None /\ f.id_pelicula # None
    /\ resp.op = "marcar_favorito"
    /\ resp.error = "Conflict"

(***************************************************************************)
(* Properties of the listings (SpecList).                                  *)
(***************************************************************************)
\* The explicit page numbers and limits the listing properties range over.
PagesFromOne == 1..(MaxId + 1)

LimitsInRange == {1, 2, LimitMax}

\* The three listings by name: the request and the collection listed.
ListingNames == {"listar_usuarios", "listar_peliculas", "listar_favoritos"}

ListingRequest(name, page, limit) ==
    CASE name = "listar_usuarios" -> listar_usuarios(page, limit)
      [] name = "listar_peliculas" -> listar_peliculas(page, limit)
      [] name = "listar_favoritos" -> listar_favoritos(page, limit)

Collection(name) ==
    CASE name = "listar_usuarios" -> usuarios
      [] name = "listar_peliculas" -> peliculas
      [] name = "listar_favoritos" -> favoritos

C2Listing(name) ==
    resp'.op = name =>
      \A p \in PagesFromOne, l \in LimitsInRange :
        ListingRequest(name, Some(p), Some(l)) =>
          IF p > CeilPages(Cardinality(Collection(name)), l)
          THEN resp'.error = "OutOfRange"
          ELSE resp'.error = "Ok"

\* C2: for every listing (users, movies, favorites) a request for a page
\* beyond the last one fails with OutOfRange and returns no page, and a
\* request for any page in 1..pages does not fail.
C2_OutOfRangeOnly ==
    [][\A name \in ListingNames : C2Listing(name)]_vars

\* The records at positions (p-1)*l+1 .. min(p*l, total) of a collection in
\* ascending id order.
PositionsOfPage(entity_class, p, l) ==
    LET all == OrderById(entity_class)
        total == Len(all)
    IN SubSeq(all, (p - 1) * l + 1, IF p * l < total THEN p * l ELSE total)

RECURSIVE Walk(_, _, _, _)
\* The items of pages p..pages of a listing, one after the other.
Walk(entity_class, l, p, pages) ==
    IF p > pages
    THEN <<>>
    ELSE OffsetLimit(OrderById(entity_class), offset_of(p, l), l)
           \o Walk(entity_class, l, p + 1, pages)

C4Listing(name) ==
    resp'.op = name =>
      \A l \in LimitsInRange :
        LET entity_class == Collection(name)
            total == Cardinality(entity_class)
            pages == CeilPages(total, l)
            walk == Walk(entity_class, l, 1, pages)
        IN /\ \A p \in 1..pages :
                ListingRequest(name, Some(p), Some(l)) =>
                  /\ resp'.error = "Ok"
                  /\ resp'.body[1].items = PositionsOfPage(entity_class, p, l)
                  /\ resp'.body[1].total_records = total
           /\ Len(walk) = total
           /\ {walk[i] : i \in 1..Len(walk)} = entity_class

\* C4: for each of the three listings, any page p in 1..pages and limit l in
\* 1..100, the items returned are exactly the records at positions
\* (p-1)*l+1 .. min(p*l, total) of the collection in ascending id order,
\* total_records is the number of records of that entity in the store, and
\* the pages 1..pages together hold every record exactly once.
C4_PageContents ==
    [][\A name \in ListingNames : C4Listing(name)]_vars

C5Listing(name) ==
    resp'.op = name =>
      /\ ListingRequest(name, None, None) => (resp'.error = "Ok" /\ resp'.body[1].current_pg = 1)
      /\ \A page \in PageInputs, limit \in LimitInputs :
           ListingRequest(name, page, limit) =>
             /\ ( \/ (page # None /\ page[1] < 1)
                  \/ (limit # None /\ limit[1] \notin 1..LimitMax) )
                  => resp'.error = "Validation"
             /\ (page # None /\ limit # None /\ resp'.error # "Validation")
                  => offset_of(page[1], limit[1]) >= 0

\* C5: each of the three listings accepts only page >= 1 and limit in
\* 1..100: a request with no paging parameters returns page 1, a request
\* with page < 1 or limit outside 1..100 is rejected as a Validation error,
\* and the offset (page-1)*limit of a request that is not rejected is never
\* negative.
C5_BoundaryValidation ==
    [][\A name \in ListingNames : C5Listing(name)]_vars

(***************************************************************************)
(* SpecRace: two create-favorite requests served at the same time.  Each   *)
(* request runs in its own session: it makes the look-ups of the handler   *)
(* (user, movie, existing favorite), and in a later step adds and commits  *)
(* the row.                                                                *)
(***************************************************************************)
MarkOps == {"crear_favorito", "marcar_favorito"}

\* The look-ups of a create-favorite handler, up to the session.add.
FavoritoCheck(p, op, usuario_id, pelicula_id) ==
    LET outcome == favorito_check(usuario_id, pelicula_id)
        request == [op |-> op, id_usuario |-> usuario_id,
                    id_pelicula |-> pelicula_id]
    IN /\ pc[p] = "idle"
       /\ IF outcome # "Ok"
          THEN /\ pc' = [pc EXCEPT ![p] = "done"]
               /\ loc' = [loc EXCEPT ![p] = request @@ [error |-> outcome]]
               /\ resp' = FavoritoRefused(op, outcome)
          ELSE /\ pc' = [pc EXCEPT ![p] = "checked"]
               /\ loc' = [loc EXCEPT ![p] = request @@ [error |-> "none"]]
               /\ UNCHANGED resp
       /\ UNCHANGED <<store, pag>>

\* session.add + session.commit + session.refresh of a create-favorite
\* handler, and its 201 response.
FavoritoInsert(p) ==
    /\ pc[p] = "checked"
    /\ NextId(favoritos) <= MaxFavId
    /\ LET row == db_favorito(loc[p].id_usuario, loc[p].id_pelicula)
       IN /\ favoritos' = favoritos \cup {row}
          /\ resp' = Reply(loc[p].op, 201, "Ok", Some(row))
    /\ pc' = [pc EXCEPT ![p] = "done"]
    /\ loc' = [loc EXCEPT ![p].error = "Ok"]
    /\ UNCHANGED <<usuarios, peliculas, pag>>

NextRace ==
    \/ \E nombre \in Nombres, correo \in CorreoInputs :
          crear_usuario(nombre, correo)
    \/ \E titulo \in Titulos, anio \in Anios : crear_pelicula(titulo, anio)
    \/ \E p \in Procs, op \in MarkOps, usuario_id \in IdInputs,
          pelicula_id \in IdInputs :
          FavoritoCheck(p, op, usuario_id, pelicula_id)
    \/ \E p \in Procs : FavoritoInsert(p)

SpecRace == Init /\ [][NextRace]_vars

\* C10: when two create-favorite requests for the same (user, movie) have
\* both ended, also when both made their existence check before either
\* inserted, the store holds at most one favorite for the pair and one of
\* the two requests was answered Conflict.  (When one request ends before
\* the other makes its check, the check of the handler gives this; the
\* interleaving where both check first is left to the store.)
C10_RaceOneFavorite ==
    ( /\ pc[1] = "done"
      /\ pc[2] = "done"
      /\ loc[1].id_usuario = loc[2].id_usuario
      /\ loc[1].id_pelicula = loc[2].id_pelicula
      /\ loc[1].error # "NotFound"
      /\ loc[2].error # "NotFound" )
    => /\ Cardinality({f \in favoritos :
                          /\ f.id_usuario = Some(loc[1].id_usuario)
                          /\ f.id_pelicula = Some(loc[1].id_pelicula)}) <= 1
       /\ {loc[1].error, loc[2].error} = {"Ok", "Conflict"}

(***************************************************************************)
(* SpecRacePelicula: two create-movie requests served at the same time.    *)
(* Each request runs in its own session: it makes the look-up of           *)
(* (titulo, año), and in a later step adds and commits the row.  The       *)
(* pelicula table has its primary key as only constraint, so the store     *)
(* accepts any row.                                                        *)
(***************************************************************************)
\* The look-up of crear_pelicula, up to the session.add.
PeliculaCheck(p, titulo, anio) ==
    LET existing_pelicula ==
            {m \in peliculas : m.titulo = titulo /\ m.anio = anio}
        request == [op |-> "crear_pelicula", titulo |-> titulo, anio |-> anio]
    IN /\ pc[p] = "idle"
       /\ IF existing_pelicula # {}
          THEN /\ pc' = [pc EXCEPT ![p] = "done"]
               /\ loc' = [loc EXCEPT ![p] = request @@ [error |-> "Conflict"]]
               /\ resp' = Reply("crear_pelicula", 400, "Conflict", None)
          ELSE /\ pc' = [pc EXCEPT ![p] = "checked"]
               /\ loc' = [loc EXCEPT ![p] = request @@ [error |-> "none"]]
               /\ UNCHANGED resp
       /\ UNCHANGED <<store, pag>>

\* session.add + session.commit + session.refresh of crear_pelicula, and
\* its 201 response.
PeliculaInsert(p) ==
    /\ pc[p] = "checked"
    /\ NextId(peliculas) <= MaxId
    /\ LET db_pelicula == [id |-> NextId(peliculas),
                           titulo |-> loc[p].titulo, anio |-> loc[p].anio]
       IN /\ peliculas' = peliculas \cup {db_pelicula}
          /\ resp' = Reply("crear_pelicula", 201, "Ok", Some(db_pelicula))
    /\ pc' = [pc EXCEPT ![p] = "done"]
    /\ loc' = [loc EXCEPT ![p].error = "Ok"]
    /\ UNCHANGED <<usuarios, favoritos, pag>>

\* A request that has ended leaves its session; the next one starts idle.
PeliculaReturn(p) ==
    /\ pc[p] = "done"
    /\ pc' = [pc EXCEPT ![p] = "idle"]
    /\ UNCHANGED <<store, resp, pag, loc>>

NextRacePelicula ==
    \/ \E p \in Procs, titulo \in Titulos, anio \in Anios :
          PeliculaCheck(p, titulo, anio)
    \/ \E p \in Procs : PeliculaInsert(p)
    \/ \E p \in Procs : PeliculaReturn(p)

SpecRacePelicula == Init /\ [][NextRacePelicula]_vars

\* C11: when two create-movie requests with the same (title, year) have
\* both ended, also when both made their existence check before either
\* inserted, the store holds at most one movie with that (title, year) and
\* one of the two requests was answered Conflict.
C11_RaceOnePelicula ==
    ( /\ pc[1] = "done"
      /\ pc[2] = "done"
      /\ loc[1].titulo = loc[2].titulo
      /\ loc[1].anio = loc[2].anio )
    => /\ Cardinality({m \in peliculas : /\ m.titulo = loc[1].titulo
                                         /\ m.anio = loc[1].anio}) <= 1
       /\ {loc[1].error, loc[2].error} = {"Ok", "Conflict"}

(***************************************************************************)
(* Properties of deletion (Spec).                                          *)
(***************************************************************************)
\* C12: deleting a user (or a movie) that has N favorites removes the
\* parent and exactly those N favorite records: afterwards no favorite
\* refers to the deleted parent or is left with an empty parent reference,
\* and the favorites of other users and movies are unchanged.
C12_CascadeDelete ==
    [][ /\ resp'.op = "eliminar_usuario" =>
             \A usuario_id \in IdInputs :
               ( /\ \E u \in usuarios : u.id = usuario_id
                 /\ eliminar_usuario(usuario_id) )
               => /\ usuarios' = {u \in usuarios : u.id # usuario_id}
                  /\ favoritos' =
                       {f \in favoritos : f.id_usuario # Some(usuario_id)}
                  /\ \A f \in favoritos' : /\ f.id_usuario # None
                                           /\ f.id_usuario # Some(usuario_id)
        /\ resp'.op = "eliminar_pelicula" =>
             \A pelicula_id \in IdInputs :
               ( /\ \E m \in peliculas : m.id = pelicula_id
                 /\ eliminar_pelicula(pelicula_id) )
               => /\ peliculas' = {m \in peliculas : m.id # pelicula_id}
                  /\ favoritos' =
                       {f \in favoritos : f.id_pelicula # Some(pelicula_id)}
                  /\ \A f \in favoritos' : /\ f.id_pelicula # None
                                           /\ f.id_pelicula # Some(pelicula_id)
      ]_vars

(***************************************************************************)
(* SpecRaceDelete: create-favorite requests, split between their look-ups  *)
(* and their insert, served at the same time as requests that delete a     *)
(* user or a movie.  The store does not enforce the foreign keys of        *)
(* favorito (the engine is opened without PRAGMA foreign_keys), so the     *)
(* insert of a row whose parent is gone succeeds.                          *)
(***************************************************************************)
\* One create-favorite request is in flight; the deletes are served whole.
Creators == {1}

NextRaceDelete ==
    \/ \E nombre \in Nombres, correo \in CorreoInputs :
          crear_usuario(nombre, correo)
    \/ \E titulo \in Titulos, anio \in Anios : crear_pelicula(titulo, anio)
    \/ \E p \in Creators, op \in MarkOps, usuario_id \in IdInputs,
          pelicula_id \in IdInputs :
          FavoritoCheck(p, op, usuario_id, pelicula_id)
    \/ \E p \in Creators : FavoritoInsert(p)
    \/ \E usuario_id \in IdInputs : eliminar_usuario(usuario_id)
    \/ \E pelicula_id \in IdInputs : eliminar_pelicula(pelicula_id)

SpecRaceDelete == Init /\ [][NextRaceDelete]_vars

\* C13: in every reachable state, also when a create-favorite request makes
\* its look-ups before and its insert after a delete of the user or of the
\* movie commits, every favorite record refers to one user and one movie
\* that are both in the store.
C13_FavoritoParentsExist ==
    \A f \in favoritos :
        /\ \E u \in usuarios : f.id_usuario = Some(u.id)
        /\ \E m \in peliculas : f.id_pelicula = Some(m.id)

(***************************************************************************)
(* Queries.  The handlers below read the store and leave it as it is.      *)
(* They read more columns of a movie than the handlers above, so the       *)
(* specifications that hold them start from a catalog: a store with users  *)
(* and with movies that carry genero, director, duracion and               *)
(* clasificacion besides id, titulo and anio.                              *)
(***************************************************************************)
\* The fields of a movie that the statistics and the recommendations read,
\* as a PeliculaCreate request supplies them.
PeliculaCreateDrama ==
    [genero |-> "Drama", director |-> "Ruiz", duracion |-> 90,
     anio |-> 1999, clasificacion |-> "PG"]

PeliculaCreateInputs ==
    { PeliculaCreateDrama,
      [genero |-> "Drama", director |-> "Soto", duracion |-> 120,
       anio |-> 2005, clasificacion |-> "R"],
      [genero |-> "Terror", director |-> "Ruiz", duracion |-> 120,
       anio |-> 1994, clasificacion |-> "PG"],
      [genero |-> "Terror", director |-> "Soto", duracion |-> 90,
       anio |-> 2005, clasificacion |-> "R"] }

CatalogoTitulos == <<"P1", "P2", "P3", "P4", "P5">>

CatalogoCorreos ==
    << <<"a", "@", "x">>, <<"b", "@", "x">>, <<"c", "@", "x">>,
       <<"d", "@", "x">>, <<"e", "@", "x">> >>

\* The movie tables that n calls of crear_pelicula with requests from
\* inputs leave: ids 1..n.
Catalogos(n, inputs) ==
    { { [id |-> i, titulo |-> CatalogoTitulos[i], anio |-> c[i].anio,
         genero |-> c[i].genero, director |-> c[i].director,
         duracion |-> c[i].duracion, clasificacion |-> c[i].clasificacion] :
           i \in 1..n } : c \in [1..n -> inputs] }

\* A store with n users, n movies and no favorite yet.
InitCatalogo(n, inputs) ==
    /\ usuarios = { [id |-> i, nombre |-> "Ana", correo |-> CatalogoCorreos[i]] :
                      i \in 1..n }
    /\ peliculas \in Catalogos(n, inputs)
    /\ favoritos = {}
    /\ resp = [op |-> "none", status |-> 0, error |-> "Ok", body |-> <<>>]
    /\ RaceIdle
    /\ PagIdle

\* The orders in which a SELECT with no ORDER BY may return the rows S.
RowOrders(S) ==
    { s \in [1..Cardinality(S) -> S] :
        \A i, j \in 1..Cardinality(S) : i # j => s[i] # s[j] }

\* Mutant: the join without its WHERE, the favorites of every user.
PeliculasDeCualquierUsuario(usuario_id) ==
    { <<f, m>> \in favoritos \X peliculas : f.id_pelicula = Some(m.id) }

\* select(Pelicula).join(Favorito).where(Favorito.id_usuario == usuario_id):
\* one row for each favorite of the user whose id_pelicula is the id of a
\* movie.
PeliculasDeUsuario(usuario_id) ==
    { <<f, m>> \in favoritos \X peliculas :
        f.id_usuario = Some(usuario_id) /\ f.id_pelicula = Some(m.id) }

\* GET /api/usuarios/{usuario_id}
obtener_usuario(usuario_id) ==
    /\ IF ~(\E u \in usuarios : u.id = usuario_id)
       THEN resp' = Reply("obtener_usuario", 404, "NotFound", None)
       ELSE resp' = Reply("obtener_usuario", 200, "Ok",
                          Some(CHOOSE u \in usuarios : u.id = usuario_id))
    /\ UNCHANGED store
    /\ NoRace

\* GET /api/peliculas/{pelicula_id}
obtener_pelicula(pelicula_id) ==
    /\ IF ~(\E m \in peliculas : m.id = pelicula_id)
       THEN resp' = Reply("obtener_pelicula", 404, "NotFound", None)
       ELSE resp' = Reply("obtener_pelicula", 200, "Ok",
                          Some(CHOOSE m \in peliculas : m.id = pelicula_id))
    /\ UNCHANGED store
    /\ NoRace

\* GET /api/usuarios/{usuario_id}/favoritos: a user that does not exist is
\* answered 400, the status the handlers give to a Conflict.
listar_favoritos_usuario(usuario_id) ==
    /\ IF ~(\E u \in usuarios : u.id = usuario_id)
       THEN resp' = Reply("listar_favoritos_usuario", 400, "Conflict", None)
       ELSE \E rows \in RowOrders(PeliculasDeUsuario(usuario_id)) :
               resp' = Reply("listar_favoritos_usuario", 200, "Ok",
                             Some([i \in DOMAIN rows |-> rows[i][2]]))
    /\ UNCHANGED store
    /\ NoRace

\* FavoritoWithDetails: FavoritoRead plus the user and the movie of the
\* row, both required.
FavoritoWithDetails(row) ==
    /\ FavoritoRead(row)
    /\ \E u \in usuarios : row.id_usuario = Some(u.id)
    /\ \E m \in peliculas : row.id_pelicula = Some(m.id)

\* The body shared by favoritos_por_usuario and favoritos_por_pelicula from
\* the query on: the rows in the order the store returns them, answered 500
\* when the response schema rejects one of them.
FavoritosDe(op, found) ==
    IF \E row \in found : ~FavoritoWithDetails(row)
    THEN resp' = Reply(op, 500, "Internal", None)
    ELSE \E rows \in RowOrders(found) : resp' = Reply(op, 200, "Ok", Some(rows))

\* GET /api/favoritos/usuario/{usuario_id}
favoritos_por_usuario(usuario_id) ==
    /\ IF ~(\E u \in usuarios : u.id = usuario_id)
       THEN resp' = Reply("favoritos_por_usuario", 404, "NotFound", None)
       ELSE FavoritosDe("favoritos_por_usuario",
                        {f \in favoritos : f.id_usuario = Some(usuario_id)})
    /\ UNCHANGED store
    /\ NoRace

\* GET /api/favoritos/pelicula/{pelicula_id}
favoritos_por_pelicula(pelicula_id) ==
    /\ IF ~(\E m \in peliculas : m.id = pelicula_id)
       THEN resp' = Reply("favoritos_por_pelicula", 404, "NotFound", None)
       ELSE FavoritosDe("favoritos_por_pelicula",
                        {f \in favoritos : f.id_pelicula = Some(pelicula_id)})
    /\ UNCHANGED store
    /\ NoRace

----------------------------------------------------------------------------
\* collections.Counter.

\* The number of times k occurs in seq.
Count(seq, k) == Cardinality({i \in DOMAIN seq : seq[i] = k})

\* The keys of Counter(seq), in the order in which seq first shows them.
RECURSIVE Counter(_)
Counter(seq) ==
    IF seq = <<>>
    THEN <<>>
    ELSE LET keys == Counter(SubSeq(seq, 1, Len(seq) - 1))
             k == seq[Len(seq)]
         IN IF \E i \in DOMAIN keys : keys[i] = k THEN keys ELSE Append(keys, k)

\* keys sorted by falling count; keys of equal count keep their order.
RECURSIVE ByCount(_, _)
ByCount(keys, seq) ==
    IF keys = <<>>
    THEN <<>>
    ELSE LET i == CHOOSE i \in DOMAIN keys :
                    /\ \A j \in DOMAIN keys : Count(seq, keys[j]) <= Count(seq, keys[i])
                    /\ \A j \in 1..(i - 1) : Count(seq, keys[j]) < Count(seq, keys[i])
         IN <<keys[i]>> \o ByCount(SubSeq(keys, 1, i - 1)
                                     \o SubSeq(keys, i + 1, Len(keys)), seq)

\* Counter(seq).most_common(n): pairs <<key, count>>.
most_common(seq, n) ==
    LET sorted == ByCount(Counter(seq), seq)
    IN [i \in 1..(IF n < Len(sorted) THEN n ELSE Len(sorted)) |->
          <<sorted[i], Count(seq, sorted[i])>>]

RECURSIVE sum(_)
sum(seq) == IF seq = <<>> THEN 0 ELSE seq[1] + sum(Tail(seq))

\* round(n / d, 2), in hundredths.
round2(n, d) == (200 * n + d) \div (2 * d)

----------------------------------------------------------------------------
\* GET /api/usuarios/{usuario_id}/estadisticas.  In the body a field that
\* can be null is None or Some(value): a list is Some(sequence), the empty
\* list Some(<<>>).  Hours and the average are in hundredths.

\* The body for a user none of whose favorites joins a movie.
estadisticas_sin_peliculas(usuario) ==
    [usuario_id |-> usuario.id,
     nombre_usuario |-> usuario.nombre,
     total_favoritos |-> 0,
     duracion_total_minutos |-> 0,
     duracion_total_horas |-> 0,
     generos_favoritos |-> Some(<<>>),
     directores_favoritos |-> Some(<<>>),
     decada_favorita |-> None,
     clasificacion_mas_vista |-> None]

\* The body computed from the favorite movies in the order of the query.
estadisticas_con_peliculas(usuario, total_favoritos, peliculas_favoritas) ==
    LET col(name) == [i \in DOMAIN peliculas_favoritas |->
                        CASE name = "genero" -> peliculas_favoritas[i].genero
                          [] name = "director" -> peliculas_favoritas[i].director
                          [] name = "duracion" -> peliculas_favoritas[i].duracion
                          [] name = "decada" ->
                               (peliculas_favoritas[i].anio \div 10) * 10
                          [] name = "clasificacion" ->
                               peliculas_favoritas[i].clasificacion]
        generos_favoritos ==
            LET mc == most_common(col("genero"), 5)
            IN [i \in DOMAIN mc |-> [genero |-> mc[i][1], cantidad |-> mc[i][2]]]
        directores_favoritos ==
            LET mc == most_common(col("director"), 5)
            IN [i \in DOMAIN mc |-> [director |-> mc[i][1], cantidad |-> mc[i][2]]]
        duracion_total_minutos == sum(col("duracion"))
        decada_favorita == most_common(col("decada"), 1)[1]
        clasificacion_mas_vista == most_common(col("clasificacion"), 1)[1]
    IN [usuario_id |-> usuario.id,
        nombre_usuario |-> usuario.nombre,
        total_favoritos |-> total_favoritos,
        duracion_total_minutos |-> duracion_total_minutos,
        duracion_total_horas |-> round2(duracion_total_minutos, 60),
        generos_favoritos |-> Some(generos_favoritos),
        directores_favoritos |-> Some(directores_favoritos),
        decada_favorita |-> Some([decada |-> <<decada_favorita[1], "s">>,
                                  cantidad |-> decada_favorita[2]]),
        clasificacion_mas_vista |->
            Some([clasificacion |-> clasificacion_mas_vista[1],
                  cantidad |-> clasificacion_mas_vista[2]]),
        promedio_duracion |->
            IF total_favoritos > 0
            THEN round2(duracion_total_minutos, total_favoritos) ELSE 0]

obtener_estadisticas_usuario(usuario_id) ==
    /\ IF ~(\E u \in usuarios : u.id = usuario_id)
       THEN resp' = Reply("obtener_estadisticas_usuario", 404, "NotFound", None)
       ELSE LET usuario == CHOOSE u \in usuarios : u.id = usuario_id
                total_favoritos ==
                    Cardinality({f \in favoritos : f.id_usuario = Some(usuario_id)})
            IN \E rows \in RowOrders(PeliculasDeUsuario(usuario_id)) :
                 LET peliculas_favoritas == [i \in DOMAIN rows |-> rows[i][2]]
                 IN resp' = Reply("obtener_estadisticas_usuario", 200, "Ok",
                        Some(IF Len(peliculas_favoritas) = 0
                             THEN estadisticas_sin_peliculas(usuario)
                             ELSE estadisticas_con_peliculas(
                                      usuario, total_favoritos, peliculas_favoritas)))
    /\ UNCHANGED store
    /\ NoRace

----------------------------------------------------------------------------
\* GET /api/favoritos/recomendaciones/{usuario_id}

\* Query(5, ge=1, le=20)
RecomendacionesLimitValid(limit) == limit >= 1 /\ limit <= 20

\* The rows that the query of the recommendations selects.  The ids of the
\* user's favorites go into NOT IN as they are read; with a NULL among
\* them NOT IN holds for no row.
recomendaciones_candidatas(usuario_id) ==
    LET favoritos_info == {r[2] : r \in PeliculasDeUsuario(usuario_id)}
        generos == {m.genero : m \in favoritos_info}
        directores == {m.director : m \in favoritos_info}
        ids_favoritos ==
            {f.id_pelicula : f \in {g \in favoritos : g.id_usuario = Some(usuario_id)}}
    IN IF None \in ids_favoritos
       THEN {}
       ELSE { m \in peliculas :
                /\ m.genero \in generos \/ m.director \in directores
                /\ Some(m.id) \notin ids_favoritos }

\* The lists that the handler may return for an existing user: none of
\* them when the user has no favorite movie, else the first limit rows of
\* the query, which has no ORDER BY.
recomendaciones(usuario_id, limit) ==
    IF PeliculasDeUsuario(usuario_id) = {}
    THEN { <<>> }
    ELSE { SubSeq(rows, 1, IF limit < Len(rows) THEN limit ELSE Len(rows)) :
             rows \in RowOrders(recomendaciones_candidatas(usuario_id)) }

obtener_recomendaciones(usuario_id, limit) ==
    /\ IF ~RecomendacionesLimitValid(Default(limit, 5))
       THEN resp' = Reply("obtener_recomendaciones", 422, "Validation", None)
       ELSE IF ~(\E u \in usuarios : u.id = usuario_id)
       THEN resp' = Reply("obtener_recomendaciones", 404, "NotFound", None)
       ELSE \E rows \in recomendaciones(usuario_id, Default(limit, 5)) :
              resp' = Reply("obtener_recomendaciones", 200, "Ok",
                            Some(rows))
    /\ UNCHANGED store
    /\ NoRace

(***************************************************************************)
(* SpecNotFound: the operations that name a user or a movie by id, on a    *)
(* catalog of MaxId users and MaxId movies, so that the id MaxId + 1 and   *)
(* the id of every deleted row are absent.                                 *)
(***************************************************************************)
RecomendacionesLimitInputs == {None, Some(0), Some(1), Some(21)}

InitNotFound == InitCatalogo(MaxId, {PeliculaCreateDrama})

NextNotFound ==
    \/ \E usuario_id \in IdInputs, pelicula_id \in IdInputs :
          crear_favorito(usuario_id, pelicula_id)
    \/ \E usuario_id \in IdInputs, pelicula_id \in IdInputs :
          marcar_favorito(usuario_id, pelicula_id)
    \/ \E usuario_id \in IdInputs : listar_favoritos_usuario(usuario_id)
    \/ \E usuario_id \in IdInputs : favoritos_por_usuario(usuario_id)
    \/ \E pelicula_id \in IdInputs : favoritos_por_pelicula(pelicula_id)
    \/ \E usuario_id \in IdInputs : obtener_estadisticas_usuario(usuario_id)
    \/ \E usuario_id \in IdInputs, limit \in RecomendacionesLimitInputs :
          obtener_recomendaciones(usuario_id, limit)
    \/ \E usuario_id \in IdInputs : eliminar_todos_favoritos_usuario(usuario_id)
    \/ \E usuario_id \in IdInputs : obtener_usuario(usuario_id)
    \/ \E usuario_id \in IdInputs, nombre \in Optional(Nombres) :
          actualizar_usuario(usuario_id, nombre, None)
    \/ \E usuario_id \in IdInputs : eliminar_usuario(usuario_id)
    \/ \E pelicula_id \in IdInputs : obtener_pelicula(pelicula_id)
    \/ \E pelicula_id \in IdInputs, titulo \in Optional(Titulos) :
          actualizar_pelicula(pelicula_id, titulo, None)
    \/ \E pelicula_id \in IdInputs : eliminar_pelicula(pelicula_id)

SpecNotFound == InitNotFound /\ [][NextNotFound]_vars

UsuarioAbsent(usuario_id) == ~(\E u \in usuarios : u.id = usuario_id)

PeliculaAbsent(pelicula_id) == ~(\E m \in peliculas : m.id = pelicula_id)

\* The request is answered NotFound and the store is as it was.
AnsweredNotFound == resp'.error = "NotFound" /\ UNCHANGED store

\* C14: every operation that names a user id or a movie id absent from the
\* store (create favorite by either endpoint, list a user's favorites,
\* favorites by user, favorites by movie, per-user statistics,
\* recommendations, bulk delete by user, get, update and delete of the
\* entity) is answered NotFound and leaves the store unchanged.
C14_AbsentIdNotFound ==
    [][ /\ \A usuario_id \in IdInputs :
             UsuarioAbsent(usuario_id) =>
               /\ \A pelicula_id \in IdInputs :
                    /\ crear_favorito(usuario_id, pelicula_id) => AnsweredNotFound
                    /\ marcar_favorito(usuario_id, pelicula_id) => AnsweredNotFound
               /\ listar_favoritos_usuario(usuario_id) => AnsweredNotFound
               /\ favoritos_por_usuario(usuario_id) => AnsweredNotFound
               /\ obtener_estadisticas_usuario(usuario_id) => AnsweredNotFound
               /\ \A limit \in RecomendacionesLimitInputs :
                    RecomendacionesLimitValid(Default(limit, 5)) =>
                      (obtener_recomendaciones(usuario_id, limit) => AnsweredNotFound)
               /\ eliminar_todos_favoritos_usuario(usuario_id) => AnsweredNotFound
               /\ obtener_usuario(usuario_id) => AnsweredNotFound
               /\ \A nombre \in Optional(Nombres) :
                    actualizar_usuario(usuario_id, nombre, None) => AnsweredNotFound
               /\ eliminar_usuario(usuario_id) => AnsweredNotFound
        /\ \A pelicula_id \in IdInputs :
             PeliculaAbsent(pelicula_id) =>
               /\ \A usuario_id \in IdInputs :
                    /\ crear_favorito(usuario_id, pelicula_id) => AnsweredNotFound
                    /\ marcar_favorito(usuario_id, pelicula_id) => AnsweredNotFound
               /\ favoritos_por_pelicula(pelicula_id) => AnsweredNotFound
               /\ obtener_pelicula(pelicula_id) => AnsweredNotFound
               /\ \A titulo \in Optional(Titulos) :
                    actualizar_pelicula(pelicula_id, titulo, None) => AnsweredNotFound
               /\ eliminar_pelicula(pelicula_id) => AnsweredNotFound
      ]_vars

(***************************************************************************)
(* SpecRecom: the recommendations, on a catalog of MaxId + 1 movies in     *)
(* which users mark favorites and movies are deleted.                      *)
(***************************************************************************)
InitRecom == InitCatalogo(MaxId + 1, PeliculaCreateInputs)

NextRecom ==
    \/ \E usuario_id \in IdInputs, pelicula_id \in IdInputs :
          marcar_favorito(usuario_id, pelicula_id)
    \/ \E pelicula_id \in IdInputs : eliminar_pelicula(pelicula_id)
    \/ \E usuario_id \in IdInputs, limit \in RecomendacionesLimitInputs :
          obtener_recomendaciones(usuario_id, limit)

SpecRecom == InitRecom /\ [][NextRecom]_vars

\* The favorite records of a user.
FavoritosDeUsuario(usuario_id) ==
    {f \in favoritos : f.id_usuario = Some(usuario_id)}

\* The movies whose genre or director is that of a movie the user has
\* favorited, the favorited movies left out.
Candidatas(usuario_id) ==
    LET favoritas == {m \in peliculas : \E f \in FavoritosDeUsuario(usuario_id) :
                                          f.id_pelicula = Some(m.id)}
    IN { m \in peliculas \ favoritas :
           \E fm \in favoritas : m.genero = fm.genero \/ m.director = fm.director }

\* C15: for an existing user, the recommendations are empty when the user
\* has no favorites; otherwise they hold only movies whose genre or
\* director is that of some favorite of the user, no movie the user has
\* favorited, no movie twice, and exactly min(limit, number of such
\* movies) entries, for limit in 1..20 (default 5).
C15_Recomendaciones ==
    [][ resp'.op = "obtener_recomendaciones" =>
          \A usuario_id \in IdInputs, limit \in RecomendacionesLimitInputs :
            ( /\ ~UsuarioAbsent(usuario_id)
              /\ RecomendacionesLimitValid(Default(limit, 5))
              /\ obtener_recomendaciones(usuario_id, limit) ) =>
                /\ resp'.status = 200
                /\ LET result == resp'.body[1]
                       n == Cardinality(Candidatas(usuario_id))
                   IN IF FavoritosDeUsuario(usuario_id) = {}
                      THEN result = <<>>
                      ELSE /\ \A i \in DOMAIN result : result[i] \in Candidatas(usuario_id)
                           /\ \A i, j \in DOMAIN result : i # j => result[i] # result[j]
                           /\ Len(result) = IF Default(limit, 5) < n
                                            THEN Default(limit, 5) ELSE n
      ]_vars

\* C16: two recommendation calls for the same user and limit on an
\* unchanged store return the same movies in the same order, and that
\* order is ascending id, not the order in which the store holds the rows.
C16_RecomendacionesOrden ==
    [][ resp'.op = "obtener_recomendaciones" /\ resp'.status = 200 =>
          LET result == resp'.body[1]
          IN /\ \A i, j \in DOMAIN result : i < j => result[i].id < result[j].id
             /\ \A usuario_id \in IdInputs, limit \in RecomendacionesLimitInputs :
                  obtener_recomendaciones(usuario_id, limit) =>
                    \A again \in recomendaciones(usuario_id, Default(limit, 5)) :
                       again = result
      ]_vars

(***************************************************************************)
(* SpecStats: the per-user statistics, on a catalog of MaxId + 1 movies in *)
(* which users mark favorites and movies are deleted.                      *)
(***************************************************************************)
InitStats == InitCatalogo(MaxId + 1, PeliculaCreateInputs)

NextStats ==
    \/ \E usuario_id \in IdInputs, pelicula_id \in IdInputs :
          marcar_favorito(usuario_id, pelicula_id)
    \/ \E pelicula_id \in IdInputs : eliminar_pelicula(pelicula_id)
    \/ \E usuario_id \in IdInputs : obtener_estadisticas_usuario(usuario_id)

SpecStats == InitStats /\ [][NextStats]_vars

\* C17: for an existing user with zero favorites the per-user statistics
\* give total favorites 0, total duration 0 in minutes and in hours,
\* average duration per favorite 0, and null for the top genres, the top
\* directors, the favorite decade and the most common classification.
C17_EstadisticasSinFavoritos ==
    [][ resp'.op = "obtener_estadisticas_usuario" =>
          \A usuario_id \in IdInputs :
            ( /\ ~UsuarioAbsent(usuario_id)
              /\ FavoritosDeUsuario(usuario_id) = {}
              /\ obtener_estadisticas_usuario(usuario_id) ) =>
                /\ resp'.status = 200
                /\ LET body == resp'.body[1]
                   IN /\ body.total_favoritos = 0
                      /\ body.duracion_total_minutos = 0
                      /\ body.duracion_total_horas = 0
                      /\ "promedio_duracion" \in DOMAIN body
                      /\ body.promedio_duracion = 0
                      /\ body.generos_favoritos = None
                      /\ body.directores_favoritos = None
                      /\ body.decada_favorita = None
                      /\ body.clasificacion_mas_vista = None
      ]_vars

\* The position at which seq first shows k.
FirstAt(seq, k) ==
    CHOOSE i \in DOMAIN seq : seq[i] = k /\ \A j \in 1..(i - 1) : seq[j] # k

\* keys[i] with count cantidades[i] are the n most frequent values of seq,
\* in non-increasing frequency, equal frequencies in the order in which
\* seq first shows them.
IsTop(keys, cantidades, seq, n) ==
    LET values == {seq[i] : i \in DOMAIN seq}
        Before(k1, k2) ==
            \/ Count(seq, k1) > Count(seq, k2)
            \/ Count(seq, k1) = Count(seq, k2) /\ FirstAt(seq, k1) < FirstAt(seq, k2)
    IN /\ Len(keys) = IF n < Cardinality(values) THEN n ELSE Cardinality(values)
       /\ Len(cantidades) = Len(keys)
       /\ \A i \in DOMAIN keys :
            keys[i] \in values /\ cantidades[i] = Count(seq, keys[i])
       /\ \A i, j \in DOMAIN keys : i < j => Before(keys[i], keys[j])
       /\ \A k \in values :
            (\A i \in DOMAIN keys : keys[i] # k) =>
               \A i \in DOMAIN keys : Before(keys[i], k)

\* C18: for a user with at least one favorite, the per-user statistics give
\* as total_favoritos the number of the user's favorite records, as
\* duracion_total_minutos the sum of the durations of the favorited movies,
\* at most 5 genres and at most 5 directors in non-increasing frequency,
\* equal frequencies in first-encountered order, and as favorite decade the
\* most frequent value of (year \div 10) * 10 with the same tie-break.
C18_EstadisticasConFavoritos ==
    [][ resp'.op = "obtener_estadisticas_usuario" =>
          \A usuario_id \in IdInputs :
            ( /\ ~UsuarioAbsent(usuario_id)
              /\ FavoritosDeUsuario(usuario_id) # {}
              /\ obtener_estadisticas_usuario(usuario_id) ) =>
                /\ resp'.status = 200
                /\ resp'.body[1].total_favoritos =
                       Cardinality(FavoritosDeUsuario(usuario_id))
                /\ \E rows \in RowOrders(PeliculasDeUsuario(usuario_id)) :
                     LET body == resp'.body[1]
                         generos == body.generos_favoritos[1]
                         directores == body.directores_favoritos[1]
                     IN /\ body.duracion_total_minutos =
                             sum([i \in DOMAIN rows |-> rows[i][2].duracion])
                        /\ body.generos_favoritos # None
                        /\ IsTop([i \in DOMAIN generos |-> generos[i].genero],
                                 [i \in DOMAIN generos |-> generos[i].cantidad],
                                 [i \in DOMAIN rows |-> rows[i][2].genero], 5)
                        /\ body.directores_favoritos # None
                        /\ IsTop([i \in DOMAIN directores |-> directores[i].director],
                                 [i \in DOMAIN directores |-> directores[i].cantidad],
                                 [i \in DOMAIN rows |-> rows[i][2].director], 5)
                        /\ body.decada_favorita # None
                        /\ body.decada_favorita[1].decada[2] = "s"
                        /\ IsTop(<<body.decada_favorita[1].decada[1]>>,
                                 <<body.decada_favorita[1].cantidad>>,
                                 [i \in DOMAIN rows |-> (rows[i][2].anio \div 10) * 10],
                                 1)
      ]_vars

(***************************************************************************)
(* Rankings by number of favorites.                                        *)
(***************************************************************************)
\* select(Usuario, func.count(Favorito.id)).join(Favorito)
\*     .group_by(Usuario.id): one row <<user, count>> for each user that
\* some favorite refers to.
FavoritosPorUsuario ==
    { <<u, Cardinality({f \in favoritos : f.id_usuario = Some(u.id)})>> :
        u \in {v \in usuarios : \E f \in favoritos : f.id_usuario = Some(v.id)} }

\* select(Pelicula, func.count(Favorito.id)).join(Favorito)
\*     .group_by(Pelicula.id)
FavoritosPorPelicula ==
    { <<m, Cardinality({f \in favoritos : f.id_pelicula = Some(m.id)})>> :
        m \in {n \in peliculas : \E f \in favoritos : f.id_pelicula = Some(n.id)} }

\* order_by(func.count(Favorito.id).desc()): the orders of the rows
\* <<row, count>> in which the count never rises.  Rows of equal count
\* come in any order.
OrderByCountDesc(groups) ==
    { s \in RowOrders(groups) :
        \A i, j \in DOMAIN s : i < j => s[i][2] >= s[j][2] }

\* GET /api/favoritos/estadisticas/generales.  In the body an id, a name,
\* a title or a genre is None or Some(value).
estadisticas_favoritos ==
    /\ \E por_usuario \in OrderByCountDesc(FavoritosPorUsuario),
          por_pelicula \in OrderByCountDesc(FavoritosPorPelicula),
          rows \in RowOrders({ <<f, m>> \in favoritos \X peliculas :
                                 f.id_pelicula = Some(m.id) }) :
         LET total_favoritos == Cardinality(favoritos)
             top_usuario == IF Len(por_usuario) = 0 THEN None
                            ELSE Some(por_usuario[1])
             top_pelicula == IF Len(por_pelicula) = 0 THEN None
                             ELSE Some(por_pelicula[1])
             generos == [i \in DOMAIN rows |-> rows[i][2].genero]
             top_genero == IF Len(generos) = 0 THEN None
                           ELSE Some(most_common(generos, 1)[1])
         IN resp' = Reply("estadisticas_favoritos", 200, "Ok", Some(
              [total_favoritos |-> total_favoritos,
               usuario_top |->
                 [id |-> IF top_usuario = None THEN None
                         ELSE Some(top_usuario[1][1].id),
                  nombre |-> IF top_usuario = None THEN None
                             ELSE Some(top_usuario[1][1].nombre),
                  cantidad_favoritos |-> IF top_usuario = None THEN 0
                                         ELSE top_usuario[1][2]],
               pelicula_top |->
                 [id |-> IF top_pelicula = None THEN None
                         ELSE Some(top_pelicula[1][1].id),
                  titulo |-> IF top_pelicula = None THEN None
                             ELSE Some(top_pelicula[1][1].titulo),
                  cantidad_favoritos |-> IF top_pelicula = None THEN 0
                                         ELSE top_pelicula[1][2]],
               genero_mas_popular |->
                 [genero |-> IF top_genero = None THEN None
                             ELSE Some(top_genero[1][1]),
                  cantidad |-> IF top_genero = None THEN 0
                               ELSE top_genero[1][2]]]))
    /\ UNCHANGED store
    /\ NoRace

\* Query(10, ge=1, le=50)
PopularesLimitValid(limit) == limit >= 1 /\ limit <= 50

PopularesLimitInputs == {None, Some(0), Some(1), Some(51)}

\* The lists that peliculas_populares may return: the first limit movies
\* of the ranking.
populares(limit) ==
    { [i \in 1..(IF limit < Len(results) THEN limit ELSE Len(results)) |->
         results[i][1]] :
        results \in OrderByCountDesc(FavoritosPorPelicula) }

\* GET /api/peliculas/populares/top
peliculas_populares(limit) ==
    /\ IF ~PopularesLimitValid(Default(limit, 10))
       THEN resp' = Reply("peliculas_populares", 422, "Validation", None)
       ELSE \E results \in populares(Default(limit, 10)) :
              resp' = Reply("peliculas_populares", 200, "Ok", Some(results))
    /\ UNCHANGED store
    /\ NoRace

(***************************************************************************)
(* SpecTop: the rankings, on a catalog of MaxId users and MaxId movies in  *)
(* which users mark favorites and movies are deleted.                      *)
(***************************************************************************)
InitTop == InitCatalogo(MaxId, PeliculaCreateInputs)

NextTop ==
    \/ \E usuario_id \in IdInputs, pelicula_id \in IdInputs :
          marcar_favorito(usuario_id, pelicula_id)
    \/ \E pelicula_id \in IdInputs : eliminar_pelicula(pelicula_id)
    \/ estadisticas_favoritos
    \/ \E limit \in PopularesLimitInputs : peliculas_populares(limit)

SpecTop == InitTop /\ [][NextTop]_vars

\* The number of favorite records that refer to a user, to a movie.
NumFavoritosUsuario(usuario_id) ==
    Cardinality({f \in favoritos : f.id_usuario = Some(usuario_id)})

NumFavoritosPelicula(pelicula_id) ==
    Cardinality({f \in favoritos : f.id_pelicula = Some(pelicula_id)})

\* C19: the global statistics give as total_favoritos the number of
\* favorite records, and as top user (top movie) a user (movie) with the
\* greatest number of favorites, the one of lowest id among those tied,
\* with that number as the count; when no favorite refers to a user
\* (movie) the top entry is null with count 0.
C19_EstadisticasGenerales ==
    [][ estadisticas_favoritos =>
          LET body == resp'.body[1]
              con_favoritos == {u \in usuarios : NumFavoritosUsuario(u.id) > 0}
              marcadas == {m \in peliculas : NumFavoritosPelicula(m.id) > 0}
          IN /\ body.total_favoritos = Cardinality(favoritos)
             /\ IF con_favoritos = {}
                THEN /\ body.usuario_top.id = None
                     /\ body.usuario_top.cantidad_favoritos = 0
                ELSE \E u \in con_favoritos :
                       /\ \A v \in con_favoritos :
                            \/ NumFavoritosUsuario(v.id) < NumFavoritosUsuario(u.id)
                            \/ /\ NumFavoritosUsuario(v.id) = NumFavoritosUsuario(u.id)
                               /\ u.id <= v.id
                       /\ body.usuario_top.id = Some(u.id)
                       /\ body.usuario_top.cantidad_favoritos = NumFavoritosUsuario(u.id)
             /\ IF marcadas = {}
                THEN /\ body.pelicula_top.id = None
                     /\ body.pelicula_top.cantidad_favoritos = 0
                ELSE \E m \in marcadas :
                       /\ \A n \in marcadas :
                            \/ NumFavoritosPelicula(n.id) < NumFavoritosPelicula(m.id)
                            \/ /\ NumFavoritosPelicula(n.id) = NumFavoritosPelicula(m.id)
                               /\ m.id <= n.id
                       /\ body.pelicula_top.id = Some(m.id)
                       /\ body.pelicula_top.cantidad_favoritos = NumFavoritosPelicula(m.id)
      ]_vars

\* C20: the popular-movies query returns at most limit movies in
\* non-increasing order of favorite count, movies of equal count in
\* ascending id, so that every call on the same data returns the same
\* sequence.
C20_PopularesOrden ==
    [][ resp'.op = "peliculas_populares" =>
          \A limit \in PopularesLimitInputs :
            ( /\ PopularesLimitValid(Default(limit, 10))
              /\ peliculas_populares(limit) ) =>
                /\ resp'.status = 200
                /\ LET result == resp'.body[1]
                   IN /\ Len(result) <= Default(limit, 10)
                      /\ \A i, j \in DOMAIN result :
                           i < j =>
                             \/ NumFavoritosPelicula(result[i].id)
                                  > NumFavoritosPelicula(result[j].id)
                             \/ /\ NumFavoritosPelicula(result[i].id)
                                     = NumFavoritosPelicula(result[j].id)
                                /\ result[i].id < result[j].id
                      /\ \A again \in populares(Default(limit, 10)) : again = result
      ]_vars

(***************************************************************************)
(* Movie search.  The texts of a movie are sequences of characters here,   *)
(* so that a search can look inside them.                                  *)
(***************************************************************************)
\* text LIKE pattern, as the store evaluates it: letters compare without
\* case, "%" in the pattern stands for any run of characters and "_" for
\* any one character.
RECURSIVE Like(_, _)
Like(pattern, text) ==
    IF pattern = <<>>
    THEN text = <<>>
    ELSE IF Head(pattern) = "%"
    THEN \/ Like(Tail(pattern), text)
         \/ text # <<>> /\ Like(pattern, Tail(text))
    ELSE /\ text # <<>>
         /\ Head(pattern) = "_" \/ LowerChar(Head(pattern)) = LowerChar(Head(text))
         /\ Like(Tail(pattern), Tail(text))

\* col(column).contains(other): column LIKE '%' || other || '%'
contains(column, other) == Like(<<"%">> \o other \o <<"%">>, column)

\* "if titulo:" and "if año:": a parameter takes part in the query when it
\* is set and is neither the empty text nor 0.
truthy_str(param) == param # None /\ param[1] # <<>>

truthy_int(param) == param # None /\ param[1] # 0

\* The rows that the statement of buscar_peliculas selects.
buscar_statement(titulo, director, genero, anio, anio_min, anio_max) ==
    { m \in peliculas :
        /\ truthy_str(titulo) => contains(m.titulo, titulo[1])
        /\ truthy_str(director) => contains(m.director, director[1])
        /\ truthy_str(genero) => contains(m.genero, genero[1])
        /\ truthy_int(anio) => m.anio = anio[1]
        /\ truthy_int(anio_min) => m.anio >= anio_min[1]
        /\ truthy_int(anio_max) => m.anio <= anio_max[1] }

\* GET /api/peliculas/buscar/
buscar_peliculas(titulo, director, genero, anio, anio_min, anio_max) ==
    /\ \E rows \in RowOrders(buscar_statement(titulo, director, genero,
                                              anio, anio_min, anio_max)) :
          resp' = Reply("buscar_peliculas", 200, "Ok", Some(rows))
    /\ UNCHANGED store
    /\ NoRace

(***************************************************************************)
(* SpecBuscar: searches on a table of MaxId movies.                        *)
(***************************************************************************)
BuscarPeliculas ==
    [titulo : {<<"a", "b">>, <<"B">>}, director : {<<"x">>, <<"b">>},
     genero : {<<"a">>}, anio : {1999, 2005}]

\* What a search request may carry for each parameter.
BuscarInputs ==
    [titulo : {None, Some(<<>>), Some(<<"b">>), Some(<<"_">>)},
     director : {None, Some(<<"b">>)},
     genero : {None, Some(<<"a">>)},
     anio : {None, Some(0), Some(1999)},
     anio_min : {None, Some(0), Some(2000)},
     anio_max : {None, Some(0), Some(2000)}]

InitBuscar ==
    /\ usuarios = {}
    /\ favoritos = {}
    /\ \E c \in [1..MaxId -> BuscarPeliculas] :
         /\ \A i, j \in 1..MaxId :
              i # j => c[i].titulo # c[j].titulo \/ c[i].anio # c[j].anio
         /\ peliculas = { [id |-> i, titulo |-> c[i].titulo,
                           director |-> c[i].director, genero |-> c[i].genero,
                           anio |-> c[i].anio] : i \in 1..MaxId }
    /\ resp = [op |-> "none", status |-> 0, error |-> "Ok", body |-> <<>>]
    /\ RaceIdle
    /\ PagIdle

NextBuscar ==
    \E q \in BuscarInputs :
       buscar_peliculas(q.titulo, q.director, q.genero,
                        q.anio, q.anio_min, q.anio_max)

SpecBuscar == InitBuscar /\ [][NextBuscar]_vars

\* x occurs in text, letters compared without case.
Substring(x, text) ==
    \E i \in 0..(Len(text) - Len(x)) :
       Lower(SubSeq(text, i + 1, i + Len(x))) = Lower(x)

\* The movie satisfies every predicate that the request supplies.
Satisfies(m, q) ==
    /\ q.titulo # None => Substring(q.titulo[1], m.titulo)
    /\ q.director # None => Substring(q.director[1], m.director)
    /\ q.genero # None => Substring(q.genero[1], m.genero)
    /\ q.anio # None => m.anio = q.anio[1]
    /\ q.anio_min # None => m.anio >= q.anio_min[1]
    /\ q.anio_max # None => m.anio <= q.anio_max[1]

\* q2 supplies every predicate that q supplies, with the same value.
Extends(q2, q) ==
    /\ q.titulo # None => q2.titulo = q.titulo
    /\ q.director # None => q2.director = q.director
    /\ q.genero # None => q2.genero = q.genero
    /\ q.anio # None => q2.anio = q.anio
    /\ q.anio_min # None => q2.anio_min = q.anio_min
    /\ q.anio_max # None => q2.anio_max = q.anio_max

\* C21: the search returns exactly the movies that satisfy every supplied
\* predicate (title, director and genre substring, exact year, minimum
\* year, maximum year), each once, so all movies when none is supplied;
\* and a request that supplies more predicates never finds a movie that
\* the request with fewer does not find.
C21_BuscarConjuncion ==
    [][ resp'.op = "buscar_peliculas" =>
          \A q \in BuscarInputs :
            buscar_peliculas(q.titulo, q.director, q.genero,
                             q.anio, q.anio_min, q.anio_max) =>
              LET result == resp'.body[1]
              IN /\ {result[i] : i \in DOMAIN result}
                      = {m \in peliculas : Satisfies(m, q)}
                 /\ \A i, j \in DOMAIN result : i # j => result[i] # result[j]
                 /\ \A q2 \in BuscarInputs :
                      Extends(q2, q) =>
                        buscar_statement(q2.titulo, q2.director, q2.genero,
                                         q2.anio, q2.anio_min, q2.anio_max)
                          \subseteq {result[i] : i \in DOMAIN result}
      ]_vars

(***************************************************************************)
(* Validation of a create-movie request (PeliculaCreate).                  *)
(***************************************************************************)
AnioActual == 2026      \* the year that obtener_año_actual returns

AnioMinField == 1888    \* año: int = Field(ge=1888)
AnioMinValido == 1900   \* validar_año: 1900 <= año <= año_actual
DuracionMax == 600      \* duracion: int = Field(gt=0, le=600)

\* utils.validar_año
validar_anio(anio) == AnioMinValido <= anio /\ anio <= AnioActual

\* PeliculaCreate: the Field constraints and the validators of año and
\* duracion.
PeliculaCreateValid(anio, duracion) ==
    /\ anio >= AnioMinField
    /\ validar_anio(anio)
    /\ duracion > 0 /\ duracion <= DuracionMax
    /\ ~(duracion < 1) /\ ~(duracion > DuracionMax)

\* POST /api/peliculas/ from the request body on: a body that
\* PeliculaCreate rejects is answered 422 before the handler runs.
crear_pelicula_request(titulo, anio, duracion) ==
    IF ~PeliculaCreateValid(anio, duracion)
    THEN /\ resp' = Reply("crear_pelicula", 422, "Validation", None)
         /\ UNCHANGED store
         /\ NoRace
    ELSE crear_pelicula(titulo, anio)

(***************************************************************************)
(* SpecCrear: create-movie requests with years and durations around the    *)
(* limits, and deletes that make room for more.                            *)
(***************************************************************************)
AnioInputs ==
    {AnioMinField - 1, AnioMinField, AnioMinValido - 1, AnioMinValido,
     AnioActual - 1, AnioActual, AnioActual + 1}

DuracionInputs == {0, 1, DuracionMax, DuracionMax + 1}

NextCrear ==
    \/ \E titulo \in Titulos, anio \in AnioInputs, duracion \in DuracionInputs :
          crear_pelicula_request(titulo, anio, duracion)
    \/ \E pelicula_id \in IdInputs : eliminar_pelicula(pelicula_id)

SpecCrear == Init /\ [][NextCrear]_vars

\* C22: create-movie accepts a year y exactly when 1888 <= y <= current
\* year and a duration d exactly when 1 <= d <= 600; a rejected request
\* is answered Validation and creates no movie.
C22_AnioDuracionLimites ==
    [][ resp'.op = "crear_pelicula" =>
          \A titulo \in Titulos, anio \in AnioInputs, duracion \in DuracionInputs :
            crear_pelicula_request(titulo, anio, duracion) =>
              IF /\ 1888 <= anio /\ anio <= AnioActual
                 /\ 1 <= duracion /\ duracion <= 600
              THEN resp'.error # "Validation"
              ELSE resp'.error = "Validation" /\ peliculas' = peliculas
      ]_vars

(***************************************************************************)
(* Poster upload.  In SpecImagen a movie row also has image_file, None or  *)
(* Some(content); a content is its bytes (a name) and their number.        *)
(***************************************************************************)
range_types == {"image/jpeg", "image/png", "image/jpg", "image/webp"}

max_size == 5 * 1024 * 1024

ContentTypeInputs == {"image/jpeg", "image/webp", "image/gif"}

ContentInputs ==
    [data : {"f", "g"}, len : {1, max_size, max_size + 1}]

\* POST /api/peliculas/{pelicula_id}/imagen.  The type is checked before
\* the try block; the size is checked inside it, where the HTTPException
\* that the check raises is caught by "except Exception", the session is
\* rolled back and a 500 is raised in its place.
cargar_imagen(pelicula_id, content_type, content) ==
    /\ IF ~(\E m \in peliculas : m.id = pelicula_id)
       THEN /\ resp' = Reply("cargar_imagen", 404, "NotFound", None)
            /\ UNCHANGED peliculas
       ELSE IF content_type \notin range_types
       THEN /\ resp' = Reply("cargar_imagen", 400, "Validation", None)
            /\ UNCHANGED peliculas
       ELSE IF content.len > max_size
       THEN /\ resp' = Reply("cargar_imagen", 500, "Internal", None)
            /\ UNCHANGED peliculas
       ELSE LET pelicula == CHOOSE m \in peliculas : m.id = pelicula_id
            IN /\ peliculas' = (peliculas \ {pelicula})
                     \cup {[pelicula EXCEPT !.image_file = Some(content)]}
               /\ resp' = Reply("cargar_imagen", 200, "Ok",
                                Some([pelicula_id |-> pelicula_id]))
    /\ UNCHANGED <<usuarios, favoritos>>
    /\ NoRace

InitImagen ==
    /\ usuarios = {}
    /\ favoritos = {}
    /\ peliculas = { [id |-> i, titulo |-> CatalogoTitulos[i], anio |-> 2019,
                      image_file |-> None] : i \in 1..MaxId }
    /\ resp = [op |-> "none", status |-> 0, error |-> "Ok", body |-> <<>>]
    /\ RaceIdle
    /\ PagIdle

NextImagen ==
    \E pelicula_id \in IdInputs, content_type \in ContentTypeInputs,
       content \in ContentInputs :
       cargar_imagen(pelicula_id, content_type, content)

SpecImagen == InitImagen /\ [][NextImagen]_vars

\* C23: an upload for an existing movie succeeds exactly when the content
\* type is allowed and the size is at most 5MB, a file of exactly 5MB
\* included; any other upload is answered Validation, not Internal, and
\* leaves the stored poster as it was.
C23_ImagenTipoTamano ==
    [][ resp'.op = "cargar_imagen" =>
          \A pelicula_id \in IdInputs, content_type \in ContentTypeInputs,
             content \in ContentInputs :
            ( /\ ~PeliculaAbsent(pelicula_id)
              /\ cargar_imagen(pelicula_id, content_type, content) ) =>
                IF content_type \in range_types /\ content.len <= 5 * 1024 * 1024
                THEN /\ resp'.error = "Ok"
                     /\ \E m \in peliculas' :
                          m.id = pelicula_id /\ m.image_file = Some(content)
                ELSE /\ resp'.error = "Validation"
                     /\ peliculas' = peliculas
      ]_vars

(***************************************************************************)
(* Partial updates (Spec).                                                 *)
(***************************************************************************)
\* C24: a partial update of an existing user or movie that supplies a
\* subset of the fields succeeds, returns the updated record, changes
\* exactly the supplied fields of that record (an email in its lower-case
\* form) and leaves its id, its other fields and every other record
\* unchanged.  Updates that would break a uniqueness rule are left out.
C24_PartialUpdate ==
    [][ /\ resp'.op = "actualizar_usuario" =>
             \A usuario_id \in IdInputs, nombre \in Optional(Nombres),
                correo \in Optional(CorreoInputs) :
               ( /\ ~UsuarioAbsent(usuario_id)
                 /\ correo # None =>
                      ~(\E v \in usuarios : /\ v.id # usuario_id
                                            /\ Lower(v.correo) = Lower(correo[1]))
                 /\ actualizar_usuario(usuario_id, nombre, correo) ) =>
                   LET old == CHOOSE u \in usuarios : u.id = usuario_id
                       new == [id |-> old.id,
                               nombre |-> IF nombre = None THEN old.nombre
                                          ELSE nombre[1],
                               correo |-> IF correo = None THEN old.correo
                                          ELSE Lower(correo[1])]
                   IN /\ resp'.error = "Ok"
                      /\ resp'.body = Some(new)
                      /\ usuarios' = (usuarios \ {old}) \cup {new}
                      /\ UNCHANGED <<peliculas, favoritos>>
        /\ resp'.op = "actualizar_pelicula" =>
             \A pelicula_id \in IdInputs, titulo \in Optional(Titulos),
                anio \in Optional(Anios) :
               ( /\ ~PeliculaAbsent(pelicula_id)
                 /\ actualizar_pelicula(pelicula_id, titulo, anio) ) =>
                   LET old == CHOOSE m \in peliculas : m.id = pelicula_id
                       new == [id |-> old.id,
                               titulo |-> IF titulo = None THEN old.titulo
                                          ELSE titulo[1],
                               anio |-> IF anio = None THEN old.anio
                                        ELSE anio[1]]
                   IN (\A m \in peliculas \ {old} :
                          m.titulo # new.titulo \/ m.anio # new.anio) =>
                        /\ resp'.error = "Ok"
                        /\ resp'.body = Some(new)
                        /\ peliculas' = (peliculas \ {old}) \cup {new}
                        /\ UNCHANGED <<usuarios, favoritos>>
      ]_vars

(***************************************************************************)
(* Import from the external movie catalog (SpecTmdb).                      *)
(*                                                                         *)
(* The catalog answers with records already in the shape of the            *)
(* application (map_tmdb_to_pelicula for a listing,                        *)
(* map_tmdb_to_pelicula_detallado for one movie).  A record is             *)
(* [titulo, anio, duracion, id]: duracion is None when the catalog sends   *)
(* "runtime": null, id is the catalog's id of the movie (0 when it sends   *)
(* none).  The listing is asked in Spanish and the details without a       *)
(* language, so the two records of one movie may carry different titles.   *)
(* The poster is downloaded by a function that returns None on any error,  *)
(* so it cannot fail a record; the image column is left out of the rows.   *)
(***************************************************************************)
MaxBatch == 3       \* longest listing the catalog answers with

TmdbIds == {1}

TmdbTitulos == {"X", "Y"}

\* Titles of the detailed records: the movie listed as "X" may be "Y" there.
TmdbDetalleTitulos == {"Y"}

TmdbAnio == 2020

\* Records of a listing: the listing of the catalog has no runtime, so the
\* mapping fills in 120.
TmdbListado ==
    [titulo : TmdbTitulos, anio : {TmdbAnio}, duracion : {Some(120)},
     id : {0} \cup TmdbIds]

\* get_movie_details: None on any error, else the detailed record.
TmdbDetalles ==
    {None} \cup
    { Some([titulo |-> t, anio |-> TmdbAnio, duracion |-> d, id |-> 0]) :
        t \in TmdbDetalleTitulos, d \in {None, Some(120)} }

TmdbListados ==
    UNION { [1..n -> TmdbListado] : n \in 0..MaxBatch }

\* The record a candidate of a listing is inserted from: the detailed
\* record when the candidate has an id and the details are obtained, else
\* the record of the listing.
detalle_o_listado(pelicula_data, get_movie_details) ==
    IF pelicula_data.id # 0 /\ get_movie_details[pelicula_data.id] # None
    THEN get_movie_details[pelicula_data.id][1]
    ELSE pelicula_data

\* Pelicula(**pelicula_data); add; commit: the columns are NOT NULL, so a
\* record without a duration fails at the commit.
insertable(pelicula_data) == pelicula_data.duracion # None

nueva_pelicula(rows, pelicula_data) ==
    [id |-> NextId(rows), titulo |-> pelicula_data.titulo,
     anio |-> pelicula_data.anio, duracion |-> pelicula_data.duracion[1]]

\* Mutant: the loop stops at the first record whose insert fails.
RECURSIVE importar_lote_abort(_, _, _, _)
importar_lote_abort(peliculas_tmdb, get_movie_details, rows, peliculas_importadas) ==
    IF peliculas_tmdb = <<>>
    THEN [peliculas |-> rows, peliculas_importadas |-> peliculas_importadas]
    ELSE LET listado == Head(peliculas_tmdb)
             existing == {p \in rows : /\ p.titulo = listado.titulo
                                       /\ p.anio = listado.anio}
             pelicula_data == detalle_o_listado(listado, get_movie_details)
             nueva == nueva_pelicula(rows, pelicula_data)
         IN IF existing # {}
            THEN importar_lote_abort(Tail(peliculas_tmdb), get_movie_details,
                                     rows, peliculas_importadas)
            ELSE IF insertable(pelicula_data)
            THEN importar_lote_abort(Tail(peliculas_tmdb), get_movie_details,
                                     rows \cup {nueva},
                                     Append(peliculas_importadas, nueva))
            ELSE [peliculas |-> rows,
                  peliculas_importadas |-> peliculas_importadas]

\* The loop of the two listings with importar: the look-up is made with the
\* title and year of the listing, the insert with the record of
\* detalle_o_listado; a failed insert is rolled back and the loop goes on.
RECURSIVE importar_lote(_, _, _, _)
importar_lote(peliculas_tmdb, get_movie_details, rows, peliculas_importadas) ==
    IF peliculas_tmdb = <<>>
    THEN [peliculas |-> rows, peliculas_importadas |-> peliculas_importadas]
    ELSE LET listado == Head(peliculas_tmdb)
             existing == {p \in rows : /\ p.titulo = listado.titulo
                                       /\ p.anio = listado.anio}
             pelicula_data == detalle_o_listado(listado, get_movie_details)
             nueva == nueva_pelicula(rows, pelicula_data)
         IN IF existing # {}
            THEN importar_lote(Tail(peliculas_tmdb), get_movie_details,
                               rows, peliculas_importadas)
            ELSE IF insertable(pelicula_data)
            THEN importar_lote(Tail(peliculas_tmdb), get_movie_details,
                               rows \cup {nueva},
                               Append(peliculas_importadas, nueva))
            ELSE importar_lote(Tail(peliculas_tmdb), get_movie_details,
                               rows, peliculas_importadas)

\* The body that reports an import: the count of the message, the length
\* of the listing and the movies that were added.
tmdb_importadas(total, peliculas_importadas) ==
    [importadas |-> Len(peliculas_importadas), total |-> total,
     peliculas_importadas |-> peliculas_importadas]

\* What the two listings do once the catalog has answered with a listing
\* that is not empty.
tmdb_listado(op, total, peliculas_tmdb, get_movie_details, importar) ==
    IF importar
    THEN LET lote == importar_lote(peliculas_tmdb, get_movie_details,
                                   peliculas, <<>>)
         IN /\ \A p \in lote.peliculas : p.id <= MaxId
            /\ peliculas' = lote.peliculas
            /\ resp' = Reply(op, 200, "Ok",
                             Some(tmdb_importadas(total,
                                                  lote.peliculas_importadas)))
    ELSE /\ resp' = Reply(op, 200, "Ok", Some(peliculas_tmdb))
         /\ UNCHANGED peliculas

\* GET /api/peliculas/tmdb/populares
obtener_peliculas_tmdb_populares(peliculas_tmdb, get_movie_details, importar) ==
    /\ IF peliculas_tmdb = <<>>
       THEN /\ resp' = Reply("obtener_peliculas_tmdb_populares", 404,
                             "NotFound", None)
            /\ UNCHANGED peliculas
       ELSE tmdb_listado("obtener_peliculas_tmdb_populares",
                         Len(peliculas_tmdb), peliculas_tmdb,
                         get_movie_details, importar)
    /\ UNCHANGED <<usuarios, favoritos>>
    /\ NoRace

\* GET /api/peliculas/tmdb/buscar
buscar_peliculas_tmdb(peliculas_tmdb, get_movie_details, importar) ==
    /\ IF peliculas_tmdb = <<>>
       THEN /\ resp' = Reply("buscar_peliculas_tmdb", 200, "Ok", Some(<<>>))
            /\ UNCHANGED peliculas
       ELSE tmdb_listado("buscar_peliculas_tmdb",
                         Len(peliculas_tmdb), peliculas_tmdb,
                         get_movie_details, importar)
    /\ UNCHANGED <<usuarios, favoritos>>
    /\ NoRace

\* POST /api/peliculas/tmdb/importar/{tmdb_id}
importar_pelicula_tmdb(tmdb_id, get_movie_details) ==
    /\ IF get_movie_details[tmdb_id] = None
       THEN /\ resp' = Reply("importar_pelicula_tmdb", 404, "NotFound", None)
            /\ UNCHANGED peliculas
       ELSE LET pelicula_data == get_movie_details[tmdb_id][1]
                existing == {p \in peliculas : /\ p.titulo = pelicula_data.titulo
                                               /\ p.anio = pelicula_data.anio}
                nueva == nueva_pelicula(peliculas, pelicula_data)
            IN IF existing # {}
               THEN /\ resp' = Reply("importar_pelicula_tmdb", 400,
                                     "Conflict", None)
                    /\ UNCHANGED peliculas
               ELSE IF insertable(pelicula_data)
               THEN /\ nueva.id <= MaxId
                    /\ peliculas' = peliculas \cup {nueva}
                    /\ resp' = Reply("importar_pelicula_tmdb", 201, "Ok",
                                     Some(nueva))
               ELSE /\ resp' = Reply("importar_pelicula_tmdb", 500,
                                     "Internal", None)
                    /\ UNCHANGED peliculas
    /\ UNCHANGED <<usuarios, favoritos>>
    /\ NoRace

NextTmdb ==
    \/ \E peliculas_tmdb \in TmdbListados,
          get_movie_details \in [TmdbIds -> TmdbDetalles],
          importar \in BOOLEAN :
          obtener_peliculas_tmdb_populares(peliculas_tmdb, get_movie_details,
                                           importar)
    \/ \E peliculas_tmdb \in TmdbListados,
          get_movie_details \in [TmdbIds -> TmdbDetalles],
          importar \in BOOLEAN :
          buscar_peliculas_tmdb(peliculas_tmdb, get_movie_details, importar)
    \/ \E tmdb_id \in TmdbIds, get_movie_details \in [TmdbIds -> TmdbDetalles] :
          importar_pelicula_tmdb(tmdb_id, get_movie_details)
    \/ \E pelicula_id \in IdInputs : eliminar_pelicula(pelicula_id)

SpecTmdb == Init /\ [][NextTmdb]_vars

TmdbOps == {"obtener_peliculas_tmdb_populares", "buscar_peliculas_tmdb"}

SameTituloAnio(a, b) == a.titulo = b.titulo /\ a.anio = b.anio

\* C25: an import of a listing never adds a movie whose title and year, as
\* inserted, are those of a movie that was already in the store or of
\* another movie added by the same import; the import by catalog id of a
\* movie whose title and year are in the store answers Conflict and adds
\* nothing.
C25_ImportSinDuplicados ==
    [][ /\ resp'.op \in TmdbOps =>
             \A m \in peliculas' \ peliculas :
                ~(\E n \in peliculas' \ {m} : SameTituloAnio(n, m))
        /\ resp'.op = "importar_pelicula_tmdb" =>
             \A tmdb_id \in TmdbIds,
                get_movie_details \in [TmdbIds -> TmdbDetalles] :
               ( /\ get_movie_details[tmdb_id] # None
                 /\ \E p \in peliculas :
                       SameTituloAnio(p, get_movie_details[tmdb_id][1])
                 /\ importar_pelicula_tmdb(tmdb_id, get_movie_details) ) =>
                   /\ resp'.error = "Conflict"
                   /\ peliculas' = peliculas
      ]_vars

\* What C26 asks of the outcome of one import of a listing into the rows.
LoteParcial(peliculas_tmdb, get_movie_details, rows) ==
    LET lote == importar_lote(peliculas_tmdb, get_movie_details, rows, <<>>)
        body == tmdb_importadas(Len(peliculas_tmdb), lote.peliculas_importadas)
        data(i) == detalle_o_listado(peliculas_tmdb[i], get_movie_details)
        added == lote.peliculas \ rows
    IN /\ rows \subseteq lote.peliculas
       /\ body.importadas = Cardinality(added)
       /\ body.total = Len(peliculas_tmdb)
       /\ \A i \in 1..Len(peliculas_tmdb) :
             insertable(data(i)) =>
               \E p \in lote.peliculas :
                  \/ SameTituloAnio(p, data(i))
                  \/ SameTituloAnio(p, peliculas_tmdb[i])
       /\ \A p \in added :
             \E i \in 1..Len(peliculas_tmdb) :
                /\ insertable(data(i))
                /\ SameTituloAnio(p, data(i))
                /\ p.duracion = data(i).duracion[1]

FavoritoCreateValid(id_usuario, id_pelicula) ==
    id_usuario > 0 /\ id_pelicula > 0

\* POST /api/favoritos/ from the request on: a body that FavoritoCreate
\* rejects is answered 422 before the handler runs.
crear_favorito_request(id_usuario, id_pelicula) ==
    IF ~FavoritoCreateValid(id_usuario, id_pelicula)
    THEN /\ resp' = Reply("crear_favorito", 422, "Validation", None)
         /\ UNCHANGED store
         /\ NoRace
    ELSE crear_favorito(id_usuario, id_pelicula)

\* Ids a request may name: 0, the ids of the store and one beyond them.
RefInputs == 0..(MaxId + 1)

NextFav ==
    \/ \E nombre \in Nombres, correo \in CorreoInputs :
          crear_usuario(nombre, correo)
    \/ \E titulo \in Titulos : crear_pelicula(titulo, 2020)
    \/ \E id_usuario \in RefInputs, id_pelicula \in RefInputs :
          crear_favorito_request(id_usuario, id_pelicula)
    \/ \E usuario_id \in RefInputs, pelicula_id \in RefInputs :
          marcar_favorito(usuario_id, pelicula_id)
    \/ \E favorito_id \in FavIdInputs : eliminar_favorito(favorito_id)
    \/ \E usuario_id \in RefInputs, pelicula_id \in RefInputs :
          eliminar_favorito_usuario(usuario_id, pelicula_id)
    \/ \E usuario_id \in IdInputs : listar_favoritos_usuario(usuario_id)

SpecFav == Init /\ [][NextFav]_vars

\* The (user, movie) pairs that are marked.
Marcadas == { <<f.id_usuario, f.id_pelicula>> : f \in favoritos }

\* C27: a successful mark adds its pair to the marked pairs and a successful
\* removal takes its pair out, a refused one changes nothing; and the
\* favorites of an existing user are listed as exactly the movies of the
\* pairs of that user, each once.
C27_FavoritosDeUsuario ==
    [][ /\ resp'.op \in {"crear_favorito", "marcar_favorito"} =>
             \A u \in RefInputs, m \in RefInputs :
               (crear_favorito_request(u, m) \/ marcar_favorito(u, m)) =>
                  Marcadas' = IF resp'.error = "Ok"
                              THEN Marcadas \cup {<<Some(u), Some(m)>>}
                              ELSE Marcadas
        /\ resp'.op = "eliminar_favorito_usuario" =>
             \A u \in RefInputs, m \in RefInputs :
               eliminar_favorito_usuario(u, m) =>
                  Marcadas' = IF resp'.error = "Ok"
                              THEN Marcadas \ {<<Some(u), Some(m)>>}
                              ELSE Marcadas
        /\ resp'.op = "eliminar_favorito" =>
             \A favorito_id \in FavIdInputs :
               eliminar_favorito(favorito_id) =>
                  Marcadas' = Marcadas \
                     { <<f.id_usuario, f.id_pelicula>> :
                         f \in {g \in favoritos : g.id = favorito_id} }
        /\ resp'.op = "listar_favoritos_usuario" =>
             \A usuario_id \in IdInputs :
               ( /\ \E u \in usuarios : u.id = usuario_id
                 /\ listar_favoritos_usuario(usuario_id) ) =>
                   LET marked == { m \in peliculas :
                                     <<Some(usuario_id), Some(m.id)>> \in Marcadas }
                       body == resp'.body[1]
                   IN /\ resp'.error = "Ok"
                      /\ Len(body) = Cardinality(marked)
                      /\ { body[i] : i \in DOMAIN body } = marked
      ]_vars

\* The favorites of user 1, who marked movie 1 while user 2 marked movie 2,
\* have been listed as movie 1 alone.
C27_Witness ==
    /\ resp.op = "listar_favoritos_usuario"
    /\ resp.status = 200
    /\ Marcadas = {<<Some(1), Some(1)>>, <<Some(2), Some(2)>>}
    /\ \E m \in peliculas : m.id = 1 /\ resp.body = Some(<<m>>)

(***************************************************************************)
(* Error outcomes and the store (Spec).                                    *)
(***************************************************************************)
\* C28: a request that is answered with an error (NotFound, Conflict,
\* Validation, Unauthorized or Internal) leaves the users, the movies and
\* the favorites as they were before it.
C28_ErrorSinCambios ==
    [][ resp'.error # "Ok" => UNCHANGED store ]_vars

(***************************************************************************)
(* The two ways of marking and of removing a favorite (SpecFav).           *)
(***************************************************************************)
\* Outcome class and favorites after POST
\* /api/usuarios/{usuario_id}/favoritos/{pelicula_id}.
MarcarOutcome(usuario_id, pelicula_id) ==
    LET outcome == favorito_check(usuario_id, pelicula_id)
    IN [error |-> outcome,
        favoritos |-> IF outcome = "Ok"
                      THEN favoritos \cup {db_favorito(usuario_id, pelicula_id)}
                      ELSE favoritos]

\* Outcome classes and favorites after DELETE /api/favoritos/{id} with the
\* id of the favorite of the pair; with no such favorite there is no id to
\* delete by and the pair is NotFound.
EliminarOutcomes(usuario_id, pelicula_id) ==
    LET found == {f \in favoritos : /\ f.id_usuario = Some(usuario_id)
                                    /\ f.id_pelicula = Some(pelicula_id)}
    IN IF found = {}
       THEN {[error |-> "NotFound", favoritos |-> favoritos]}
       ELSE {[error |-> "Ok",
              favoritos |-> {g \in favoritos : g.id # f.id}] : f \in found}

\* C29: from the same store and for the same user and movie, the POST of
\* /api/favoritos/ with the pair in its body ends in the outcome class and
\* with the favorites of the mark on the user resource, and the removal by
\* (user, movie) in the outcome class and with the favorites of the removal
\* by the id of the favorite of the pair.
C29_DosCaminos ==
    [][ /\ resp'.op = "crear_favorito" =>
             \A u \in RefInputs, m \in RefInputs :
               crear_favorito_request(u, m) =>
                  /\ resp'.error = MarcarOutcome(u, m).error
                  /\ favoritos' = MarcarOutcome(u, m).favoritos
        /\ resp'.op = "eliminar_favorito_usuario" =>
             \A u \in RefInputs, m \in RefInputs :
               eliminar_favorito_usuario(u, m) =>
                  [error |-> resp'.error, favoritos |-> favoritos']
                     \in EliminarOutcomes(u, m)
      ]_vars

\* Helper: C29 for the pairs whose ids are both greater than 0.
C29_IdsPositivos ==
    [][ /\ resp'.op = "crear_favorito" =>
             \A u \in RefInputs \ {0}, m \in RefInputs \ {0} :
               crear_favorito_request(u, m) =>
                  /\ resp'.error = MarcarOutcome(u, m).error
                  /\ favoritos' = MarcarOutcome(u, m).favoritos
        /\ resp'.op = "eliminar_favorito_usuario" =>
             \A u \in RefInputs, m \in RefInputs :
               eliminar_favorito_usuario(u, m) =>
                  [error |-> resp'.error, favoritos |-> favoritos']
                     \in EliminarOutcomes(u, m)
      ]_vars

(***************************************************************************)
(* Login (SpecLogin).  Names are sequences of characters here, so that the *)
(* spaces around them can be told apart.                                   *)
(***************************************************************************)
\* str.strip(): the text without its leading and trailing spaces.
RECURSIVE strip(_)
strip(s) ==
    IF s = <<>> THEN s
    ELSE IF Head(s) = " " THEN strip(Tail(s))
    ELSE IF s[Len(s)] = " " THEN strip(SubSeq(s, 1, Len(s) - 1))
    ELSE s

\* The characters of the inputs for which c.isalnum() holds.
Alnum == {"A", "B", "X", "a", "b", "n", "x"}

\* UsuarioCreate.nombre: the length limits of the field on the text as sent,
\* then validar_nombre on the stripped text (its length test
\* "len < 2 and len <= 50" is len < 2).
validar_nombre(nombre) ==
    /\ Len(nombre) >= 1
    /\ Len(nombre) <= 100
    /\ strip(nombre) # <<>>
    /\ ~(Len(strip(nombre)) < 2 /\ Len(strip(nombre)) <= 50)
    /\ \A i \in DOMAIN strip(nombre) :
          strip(nombre)[i] \in Alnum \/ strip(nombre)[i] = " "

\* EmailStr: the address in its normalised form, the part after the "@" in
\* lower case and the part before it as sent.
EmailStr(correo) ==
    LET at == CHOOSE i \in DOMAIN correo : correo[i] = "@"
    IN [i \in DOMAIN correo |->
          IF i > at THEN LowerChar(correo[i]) ELSE correo[i]]

\* POST /api/usuarios/ from the request on: the name is validated and
\* stored stripped, the address in lower case.
crear_usuario_request(nombre, correo) ==
    IF ~validar_nombre(nombre)
    THEN /\ resp' = Reply("crear_usuario", 422, "Validation", None)
         /\ UNCHANGED store
         /\ NoRace
    ELSE crear_usuario(strip(nombre), EmailStr(correo))

\* POST /api/usuarios/login: the Login schema has no validator, so the name
\* is compared as sent and the address as EmailStr leaves it; the
\* comparison of the store tells upper case from lower case.
login(nombre, correo) ==
    LET found == {u \in usuarios : /\ u.correo = EmailStr(correo)
                                   /\ u.nombre = nombre}
    IN /\ IF found = {}
          THEN resp' = Reply("login", 401, "Unauthorized", None)
          ELSE \E usuario \in found :
                  resp' = Reply("login", 200, "Ok", Some(usuario))
       /\ UNCHANGED store
       /\ NoRace

NombreInputs ==
    { <<"A", "n">>, <<" ", "A", "n", " ">>, <<"a", "n">>, <<"A">> }

NextLogin ==
    \/ \E nombre \in NombreInputs, correo \in CorreoInputs :
          crear_usuario_request(nombre, correo)
    \/ \E nombre \in NombreInputs, correo \in CorreoInputs :
          login(nombre, correo)
    \/ \E usuario_id \in IdInputs : eliminar_usuario(usuario_id)

SpecLogin == Init /\ [][NextLogin]_vars

\* C30: a login that presents the name and the address with which a stored
\* user was created (the user's name is the stripped name, the user's
\* address the address in lower case) succeeds; a login is answered
\* Unauthorized exactly when no stored user has the presented name and
\* address; and a login leaves the store as it was.
C30_Login ==
    [][ resp'.op = "login" =>
          \A nombre \in NombreInputs, correo \in CorreoInputs :
            login(nombre, correo) =>
              /\ ( /\ validar_nombre(nombre)
                   /\ \E u \in usuarios : /\ u.nombre = strip(nombre)
                                          /\ u.correo = Lower(correo) )
                     => resp'.error = "Ok"
              /\ resp'.error = "Unauthorized" <=>
                   ~(\E u \in usuarios : /\ u.nombre = nombre
                                         /\ u.correo = EmailStr(correo))
              /\ UNCHANGED store
      ]_vars

\* Helper: C30 without its first part.
C30_LoginExacto ==
    [][ resp'.op = "login" =>
          \A nombre \in NombreInputs, correo \in CorreoInputs :
            login(nombre, correo) =>
              /\ resp'.error = "Unauthorized" <=>
                   ~(\E u \in usuarios : /\ u.nombre = nombre
                                         /\ u.correo = EmailStr(correo))
              /\ UNCHANGED store
      ]_vars

====
